---- MODULE Spec2Model ----
(***************************************************************************)
(* A model of the AgIsoStack-rs object pool module (src/object_pool/mod.rs) *)
(* and of the NAME enumerations: the ObjectType registry, the ObjectId      *)
(* conversions, the Object structs, and the reader / writer / ObjectPool    *)
(* operations that the module declares (mod reader, mod writer,             *)
(* mod object_pool) and whose behaviour the design specification gives.    *)
(***************************************************************************)
EXTENDS Integers, Sequences, FiniteSets, TLC

VARIABLES
    call,     \* the last call of a pure conversion: [op, arg, ret]
    buf,      \* the byte buffer handed to the reader
    pc,       \* the position of the decode / assemble / validate / encode pipeline
    decoded,  \* the result of the whole-pool decode
    pool,     \* the ObjectPool: [objects, index]
    poolErr,  \* the result of the last pool operation ("none", "DuplicateId")
    dangling, \* the result of validate_references()
    out,      \* the bytes written by the writer
    fed       \* the number of records the caller has put into the buffer

vars == <<call, buf, pc, decoded, pool, poolErr, dangling, out, fed>>

(***************************************************************************)
(* ParseError, and Result values.                                          *)
(***************************************************************************)
ParseError == {"DataEmpty", "UnknownObjectType"}

Ok(v) == [ok |-> TRUE, val |-> v]

Err(e) == [ok |-> FALSE, err |-> e]

Byte == 0..255

(***************************************************************************)
(* enum ObjectType: each kind with its explicit discriminant.              *)
(***************************************************************************)
ObjectTypeDiscriminant ==
    [WorkingSet |-> 0,
     DataMask |-> 1,
     AlarmMask |-> 2,
     Container |-> 3,
     SoftKeyMask |-> 4,
     Key |-> 5,
     Button |-> 6,
     InputBoolean |-> 7,
     InputString |-> 8,
     InputNumber |-> 9,
     InputList |-> 10,
     OutputString |-> 11,
     OutputNumber |-> 12,
     OutputLine |-> 13,
     OutputRectangle |-> 14,
     OutputEllipse |-> 15,
     OutputPolygon |-> 16,
     OutputMeter |-> 17,
     OutputLinearBarGraph |-> 18,
     OutputArchedBarGraph |-> 19,
     PictureGraphic |-> 20,
     NumberVariable |-> 21,
     StringVariable |-> 22,
     FontAttributes |-> 23,
     LineAttributes |-> 24,
     FillAttributes |-> 25,
     InputAttributes |-> 26,
     ObjectPointer |-> 27,
     Macro |-> 28,
     AuxiliaryFunctionType1 |-> 29,
     AuxiliaryInputType1 |-> 30,
     AuxiliaryFunctionType2 |-> 31,
     AuxiliaryInputType2 |-> 32,
     AuxiliaryControlDesignatorType2 |-> 33,
     WindowMask |-> 34,
     KeyGroup |-> 35,
     GraphicsContext |-> 36,
     OutputList |-> 37,
     ExtendedInputAttributes |-> 38,
     ColourMap |-> 39,
     ObjectLabelReferenceList |-> 40,
     ExternalObjectDefinition |-> 41,
     ExternalReferenceName |-> 42,
     ExternalObjectPointer |-> 43,
     Animation |-> 44,
     ColourPalette |-> 45,
     GraphicData |-> 46,
     WorkingSetSpecialControls |-> 47,
     ScalesGraphic |-> 48]

ObjectType == DOMAIN ObjectTypeDiscriminant

\* Variants of the registry with a slip in one arm.
ObjectTypeTryFrom_OffByOne(val) ==
    IF val <= 49
    THEN Ok(CHOOSE k \in ObjectType :
                ObjectTypeDiscriminant[k] = (IF val = 49 THEN 48 ELSE val))
    ELSE Err("UnknownObjectType")

ObjectTypeTryFrom_CatchAll(val) ==
    IF val <= 48
    THEN Ok(CHOOSE k \in ObjectType : ObjectTypeDiscriminant[k] = val)
    ELSE Ok("NumberVariable")

(***************************************************************************)
(* impl TryFrom<u8> for ObjectType: the match, arm by arm.                 *)
(***************************************************************************)
ObjectTypeTryFrom(val) ==
    CASE val = 0 -> Ok("WorkingSet")
      [] val = 1 -> Ok("DataMask")
      [] val = 2 -> Ok("AlarmMask")
      [] val = 3 -> Ok("Container")
      [] val = 4 -> Ok("SoftKeyMask")
      [] val = 5 -> Ok("Key")
      [] val = 6 -> Ok("Button")
      [] val = 7 -> Ok("InputBoolean")
      [] val = 8 -> Ok("InputString")
      [] val = 9 -> Ok("InputNumber")
      [] val = 10 -> Ok("InputList")
      [] val = 11 -> Ok("OutputString")
      [] val = 12 -> Ok("OutputNumber")
      [] val = 13 -> Ok("OutputLine")
      [] val = 14 -> Ok("OutputRectangle")
      [] val = 15 -> Ok("OutputEllipse")
      [] val = 16 -> Ok("OutputPolygon")
      [] val = 17 -> Ok("OutputMeter")
      [] val = 18 -> Ok("OutputLinearBarGraph")
      [] val = 19 -> Ok("OutputArchedBarGraph")
      [] val = 20 -> Ok("PictureGraphic")
      [] val = 21 -> Ok("NumberVariable")
      [] val = 22 -> Ok("StringVariable")
      [] val = 23 -> Ok("FontAttributes")
      [] val = 24 -> Ok("LineAttributes")
      [] val = 25 -> Ok("FillAttributes")
      [] val = 26 -> Ok("InputAttributes")
      [] val = 27 -> Ok("ObjectPointer")
      [] val = 28 -> Ok("Macro")
      [] val = 29 -> Ok("AuxiliaryFunctionType1")
      [] val = 30 -> Ok("AuxiliaryInputType1")
      [] val = 31 -> Ok("AuxiliaryFunctionType2")
      [] val = 32 -> Ok("AuxiliaryInputType2")
      [] val = 33 -> Ok("AuxiliaryControlDesignatorType2")
      [] val = 34 -> Ok("WindowMask")
      [] val = 35 -> Ok("KeyGroup")
      [] val = 36 -> Ok("GraphicsContext")
      [] val = 37 -> Ok("OutputList")
      [] val = 38 -> Ok("ExtendedInputAttributes")
      [] val = 39 -> Ok("ColourMap")
      [] val = 40 -> Ok("ObjectLabelReferenceList")
      [] val = 41 -> Ok("ExternalObjectDefinition")
      [] val = 42 -> Ok("ExternalReferenceName")
      [] val = 43 -> Ok("ExternalObjectPointer")
      [] val = 44 -> Ok("Animation")
      [] val = 45 -> Ok("ColourPalette")
      [] val = 46 -> Ok("GraphicData")
      [] val = 47 -> Ok("WorkingSetSpecialControls")
      [] val = 48 -> Ok("ScalesGraphic")
      [] OTHER -> Err("UnknownObjectType")

(***************************************************************************)
(* The kind list of the design specification's data model section, read in *)
(* the order it is written, with its "A/B/C" groups expanded in place.     *)
(***************************************************************************)
Section3KindList ==
    <<"WorkingSet", "DataMask", "AlarmMask", "Container", "SoftKeyMask", "Key",
      "Button", "InputBoolean", "InputString", "InputNumber", "InputList",
      "OutputString", "OutputNumber", "OutputLine", "OutputRectangle",
      "OutputEllipse", "OutputPolygon", "OutputMeter", "OutputLinearBarGraph",
      "OutputArchedBarGraph", "OutputList", "PictureGraphic", "NumberVariable",
      "StringVariable", "FontAttributes", "LineAttributes", "FillAttributes",
      "InputAttributes", "ObjectPointer", "Macro", "AuxiliaryFunctionType1",
      "AuxiliaryFunctionType2", "AuxiliaryInputType1", "AuxiliaryInputType2",
      "AuxiliaryControlDesignatorType2", "WindowMask", "KeyGroup",
      "GraphicsContext", "OutputList", "ExtendedInputAttributes", "ColourMap",
      "ObjectLabelReferenceList", "ExternalObjectDefinition",
      "ExternalReferenceName", "ExternalObjectPointer", "Animation",
      "ColourPalette", "GraphicData", "WorkingSetSpecialControls",
      "ScalesGraphic">>

\* Variants of the tag mapping: two arms exchanged; the tags taken from the
\* position in the kind list above.
ObjectTypeToU8_Swapped(val) ==
    CASE val = "Key" -> 6
      [] val = "Button" -> 5
      [] OTHER -> ObjectTypeDiscriminant[val]

ObjectTypeToU8_ListOrder(val) ==
    (CHOOSE i \in 1..Len(Section3KindList) :
        /\ Section3KindList[i] = val
        /\ \A j \in 1..(i - 1) : Section3KindList[j] # val) - 1

(***************************************************************************)
(* impl From<ObjectType> for u8: the match, arm by arm.                    *)
(***************************************************************************)
ObjectTypeToU8(val) ==
    CASE val = "WorkingSet" -> 0
      [] val = "DataMask" -> 1
      [] val = "AlarmMask" -> 2
      [] val = "Container" -> 3
      [] val = "SoftKeyMask" -> 4
      [] val = "Key" -> 5
      [] val = "Button" -> 6
      [] val = "InputBoolean" -> 7
      [] val = "InputString" -> 8
      [] val = "InputNumber" -> 9
      [] val = "InputList" -> 10
      [] val = "OutputString" -> 11
      [] val = "OutputNumber" -> 12
      [] val = "OutputLine" -> 13
      [] val = "OutputRectangle" -> 14
      [] val = "OutputEllipse" -> 15
      [] val = "OutputPolygon" -> 16
      [] val = "OutputMeter" -> 17
      [] val = "OutputLinearBarGraph" -> 18
      [] val = "OutputArchedBarGraph" -> 19
      [] val = "PictureGraphic" -> 20
      [] val = "NumberVariable" -> 21
      [] val = "StringVariable" -> 22
      [] val = "FontAttributes" -> 23
      [] val = "LineAttributes" -> 24
      [] val = "FillAttributes" -> 25
      [] val = "InputAttributes" -> 26
      [] val = "ObjectPointer" -> 27
      [] val = "Macro" -> 28
      [] val = "AuxiliaryFunctionType1" -> 29
      [] val = "AuxiliaryInputType1" -> 30
      [] val = "AuxiliaryFunctionType2" -> 31
      [] val = "AuxiliaryInputType2" -> 32
      [] val = "AuxiliaryControlDesignatorType2" -> 33
      [] val = "WindowMask" -> 34
      [] val = "KeyGroup" -> 35
      [] val = "GraphicsContext" -> 36
      [] val = "OutputList" -> 37
      [] val = "ExtendedInputAttributes" -> 38
      [] val = "ColourMap" -> 39
      [] val = "ObjectLabelReferenceList" -> 40
      [] val = "ExternalObjectDefinition" -> 41
      [] val = "ExternalReferenceName" -> 42
      [] val = "ExternalObjectPointer" -> 43
      [] val = "Animation" -> 44
      [] val = "ColourPalette" -> 45
      [] val = "GraphicData" -> 46
      [] val = "WorkingSetSpecialControls" -> 47
      [] val = "ScalesGraphic" -> 48

(***************************************************************************)
(* struct ObjectId(u16), its NULL handle and its conversions.              *)
(***************************************************************************)
NULL == 65535

ObjectIdFromLeBytes(lo, hi) == lo + 256 * hi

\* A variant of the two-byte form with the bytes in big-endian order.
ObjectIdToLeBytes_BigEndian(id) == <<id \div 256, id % 256>>

ObjectIdToLeBytes(id) == <<id % 256, id \div 256>>

\* impl From<u16> for ObjectId and impl From<ObjectId> for u16: the tuple struct
\* wraps the raw value; the model writes an ObjectId as its raw 16-bit value.
ObjectIdFromU16(val) == val

ObjectIdToU16(val) == val

\* A variant of Default as #[derive(Default)] would give it: ObjectId(0).
ObjectIdDefault_Derived == ObjectIdFromU16(0)

\* impl Default for ObjectId
ObjectIdDefault == NULL

\* #[derive(Debug, Clone, Copy, PartialEq, Eq)] struct ObjectId(u16): the
\* comparisons the type has.  The derived == compares the raw values; there is
\* no PartialOrd or Ord, so < on two ObjectIds is not available.
ObjectIdDerives == {"Debug", "Clone", "Copy", "PartialEq", "Eq"}

ObjectIdEq(a, b) ==
    IF "PartialEq" \in ObjectIdDerives THEN Ok(a = b) ELSE Err("NotImplemented")

ObjectIdLt(a, b) ==
    IF "PartialOrd" \in ObjectIdDerives THEN Ok(a < b) ELSE Err("NotImplemented")

\* impl From<&[u8]> for ObjectId: the conversion has no error value; a slice
\* shorter than two bytes gives ObjectId::NULL.
ObjectIdFromSlice(val) ==
    IF Len(val) >= 2 THEN ObjectIdFromLeBytes(val[1], val[2]) ELSE NULL

(***************************************************************************)
(* The Object structs: the fields of each kind after its id, in declared   *)
(* order, each with the wire type of its Rust type.  The kinds listed are  *)
(* those whose fields are integers, bools, ObjectIds and counted sections  *)
(* of ObjectId, ObjectRef and MacroRef; the reader and the writer of this  *)
(* model handle these kinds, and the buffers it decodes hold only them.    *)
(***************************************************************************)
Fields(kind) ==
    CASE kind = "DataMask" ->
            << <<"background_colour", "u8">>, <<"soft_key_mask", "id">>,
               <<"object_refs", "object_refs">>, <<"macro_refs", "macro_refs">> >>
      [] kind = "Container" ->
            << <<"width", "u16">>, <<"height", "u16">>, <<"hidden", "bool">>,
               <<"object_refs", "object_refs">>, <<"macro_refs", "macro_refs">> >>
      [] kind = "SoftKeyMask" ->
            << <<"background_colour", "u8">>, <<"objects", "ids">>,
               <<"macro_refs", "macro_refs">> >>
      [] kind = "InputBoolean" ->
            << <<"background_colour", "u8">>, <<"width", "u16">>,
               <<"foreground_colour", "id">>, <<"variable_reference", "id">>,
               <<"value", "bool">>, <<"enabled", "bool">>,
               <<"macro_refs", "macro_refs">> >>
      [] kind = "NumberVariable" ->
            << <<"value", "u32">> >>
      [] kind = "ObjectPointer" ->
            << <<"value", "id">> >>
      [] kind = "AuxiliaryControlDesignatorType2" ->
            << <<"pointer_type", "u8">>, <<"auxiliary_object_id", "id">> >>
      [] kind = "ExternalObjectPointer" ->
            << <<"default_object_id", "id">>, <<"external_reference_name_id", "id">>,
               <<"external_object_id", "id">> >>

ModelledKinds ==
    {"DataMask", "Container", "SoftKeyMask", "InputBoolean", "NumberVariable",
     "ObjectPointer", "AuxiliaryControlDesignatorType2", "ExternalObjectPointer"}

\* enum Object: one variant per kind, each wrapping that kind's struct.
ObjectVariants ==
    {"WorkingSet", "DataMask", "AlarmMask",
     "Container", "SoftKeyMask", "Key",
     "Button", "InputBoolean", "InputString",
     "InputNumber", "InputList", "OutputString",
     "OutputNumber", "OutputLine", "OutputRectangle",
     "OutputEllipse", "OutputPolygon", "OutputMeter",
     "OutputLinearBarGraph", "OutputArchedBarGraph", "PictureGraphic",
     "NumberVariable", "StringVariable", "FontAttributes",
     "LineAttributes", "FillAttributes", "InputAttributes",
     "ObjectPointer", "Macro", "AuxiliaryFunctionType1",
     "AuxiliaryInputType1", "AuxiliaryFunctionType2", "AuxiliaryInputType2",
     "AuxiliaryControlDesignatorType2", "WindowMask", "KeyGroup",
     "GraphicsContext", "OutputList", "ExtendedInputAttributes",
     "ColourMap", "ObjectLabelReferenceList", "ExternalObjectDefinition",
     "ExternalReferenceName", "ExternalObjectPointer", "Animation",
     "ColourPalette", "GraphicData", "WorkingSetSpecialControls",
     "ScalesGraphic"}

\* A variant of Object::id() whose ObjectPointer arm returns the wrong field.
ObjectIdOf_WrongField(o) == IF o.kind = "ObjectPointer" THEN o.value ELSE o.id

\* Object::id(): every arm of the match returns the variant's id field.
ObjectIdOf(o) ==
    CASE o.kind = "WorkingSet" -> o.id
      [] o.kind = "DataMask" -> o.id
      [] o.kind = "AlarmMask" -> o.id
      [] o.kind = "Container" -> o.id
      [] o.kind = "SoftKeyMask" -> o.id
      [] o.kind = "Key" -> o.id
      [] o.kind = "Button" -> o.id
      [] o.kind = "InputBoolean" -> o.id
      [] o.kind = "InputString" -> o.id
      [] o.kind = "InputNumber" -> o.id
      [] o.kind = "InputList" -> o.id
      [] o.kind = "OutputString" -> o.id
      [] o.kind = "OutputNumber" -> o.id
      [] o.kind = "OutputLine" -> o.id
      [] o.kind = "OutputRectangle" -> o.id
      [] o.kind = "OutputEllipse" -> o.id
      [] o.kind = "OutputPolygon" -> o.id
      [] o.kind = "OutputMeter" -> o.id
      [] o.kind = "OutputLinearBarGraph" -> o.id
      [] o.kind = "OutputArchedBarGraph" -> o.id
      [] o.kind = "PictureGraphic" -> o.id
      [] o.kind = "NumberVariable" -> o.id
      [] o.kind = "StringVariable" -> o.id
      [] o.kind = "FontAttributes" -> o.id
      [] o.kind = "LineAttributes" -> o.id
      [] o.kind = "FillAttributes" -> o.id
      [] o.kind = "InputAttributes" -> o.id
      [] o.kind = "ObjectPointer" -> o.id
      [] o.kind = "Macro" -> o.id
      [] o.kind = "AuxiliaryFunctionType1" -> o.id
      [] o.kind = "AuxiliaryInputType1" -> o.id
      [] o.kind = "AuxiliaryFunctionType2" -> o.id
      [] o.kind = "AuxiliaryInputType2" -> o.id
      [] o.kind = "AuxiliaryControlDesignatorType2" -> o.id
      [] o.kind = "WindowMask" -> o.id
      [] o.kind = "KeyGroup" -> o.id
      [] o.kind = "GraphicsContext" -> o.id
      [] o.kind = "OutputList" -> o.id
      [] o.kind = "ExtendedInputAttributes" -> o.id
      [] o.kind = "ColourMap" -> o.id
      [] o.kind = "ObjectLabelReferenceList" -> o.id
      [] o.kind = "ExternalObjectDefinition" -> o.id
      [] o.kind = "ExternalReferenceName" -> o.id
      [] o.kind = "ExternalObjectPointer" -> o.id
      [] o.kind = "Animation" -> o.id
      [] o.kind = "ColourPalette" -> o.id
      [] o.kind = "GraphicData" -> o.id
      [] o.kind = "WorkingSetSpecialControls" -> o.id
      [] o.kind = "ScalesGraphic" -> o.id

\* Object::object_type(): every arm returns the ObjectType named like the variant.
\* A variant of object_type with the Key and Button arms exchanged.
ObjectTypeOf_Swapped(o) ==
    IF o.kind = "Key" THEN "Button" ELSE IF o.kind = "Button" THEN "Key" ELSE o.kind

ObjectTypeOf(o) ==
    CASE o.kind = "WorkingSet" -> "WorkingSet"
      [] o.kind = "DataMask" -> "DataMask"
      [] o.kind = "AlarmMask" -> "AlarmMask"
      [] o.kind = "Container" -> "Container"
      [] o.kind = "SoftKeyMask" -> "SoftKeyMask"
      [] o.kind = "Key" -> "Key"
      [] o.kind = "Button" -> "Button"
      [] o.kind = "InputBoolean" -> "InputBoolean"
      [] o.kind = "InputString" -> "InputString"
      [] o.kind = "InputNumber" -> "InputNumber"
      [] o.kind = "InputList" -> "InputList"
      [] o.kind = "OutputString" -> "OutputString"
      [] o.kind = "OutputNumber" -> "OutputNumber"
      [] o.kind = "OutputLine" -> "OutputLine"
      [] o.kind = "OutputRectangle" -> "OutputRectangle"
      [] o.kind = "OutputEllipse" -> "OutputEllipse"
      [] o.kind = "OutputPolygon" -> "OutputPolygon"
      [] o.kind = "OutputMeter" -> "OutputMeter"
      [] o.kind = "OutputLinearBarGraph" -> "OutputLinearBarGraph"
      [] o.kind = "OutputArchedBarGraph" -> "OutputArchedBarGraph"
      [] o.kind = "PictureGraphic" -> "PictureGraphic"
      [] o.kind = "NumberVariable" -> "NumberVariable"
      [] o.kind = "StringVariable" -> "StringVariable"
      [] o.kind = "FontAttributes" -> "FontAttributes"
      [] o.kind = "LineAttributes" -> "LineAttributes"
      [] o.kind = "FillAttributes" -> "FillAttributes"
      [] o.kind = "InputAttributes" -> "InputAttributes"
      [] o.kind = "ObjectPointer" -> "ObjectPointer"
      [] o.kind = "Macro" -> "Macro"
      [] o.kind = "AuxiliaryFunctionType1" -> "AuxiliaryFunctionType1"
      [] o.kind = "AuxiliaryInputType1" -> "AuxiliaryInputType1"
      [] o.kind = "AuxiliaryFunctionType2" -> "AuxiliaryFunctionType2"
      [] o.kind = "AuxiliaryInputType2" -> "AuxiliaryInputType2"
      [] o.kind = "AuxiliaryControlDesignatorType2" -> "AuxiliaryControlDesignatorType2"
      [] o.kind = "WindowMask" -> "WindowMask"
      [] o.kind = "KeyGroup" -> "KeyGroup"
      [] o.kind = "GraphicsContext" -> "GraphicsContext"
      [] o.kind = "OutputList" -> "OutputList"
      [] o.kind = "ExtendedInputAttributes" -> "ExtendedInputAttributes"
      [] o.kind = "ColourMap" -> "ColourMap"
      [] o.kind = "ObjectLabelReferenceList" -> "ObjectLabelReferenceList"
      [] o.kind = "ExternalObjectDefinition" -> "ExternalObjectDefinition"
      [] o.kind = "ExternalReferenceName" -> "ExternalReferenceName"
      [] o.kind = "ExternalObjectPointer" -> "ExternalObjectPointer"
      [] o.kind = "Animation" -> "Animation"
      [] o.kind = "ColourPalette" -> "ColourPalette"
      [] o.kind = "GraphicData" -> "GraphicData"
      [] o.kind = "WorkingSetSpecialControls" -> "WorkingSetSpecialControls"
      [] o.kind = "ScalesGraphic" -> "ScalesGraphic"

(***************************************************************************)
(* Reader.  A read takes the buffer b and the cursor pos (the number of    *)
(* bytes consumed) and gives Ok([v, pos]) with the value and the advanced  *)
(* cursor, or Err("DataEmpty") when fewer bytes remain than the field has. *)
(***************************************************************************)
Read(v, pos) == Ok([v |-> v, pos |-> pos])

ReadU8(b, pos) ==
    IF Len(b) - pos >= 1 THEN Read(b[pos + 1], pos + 1) ELSE Err("DataEmpty")

ReadU16(b, pos) ==
    IF Len(b) - pos >= 2
    THEN Read(b[pos + 1] + 256 * b[pos + 2], pos + 2)
    ELSE Err("DataEmpty")

ReadU32(b, pos) ==
    IF Len(b) - pos >= 4
    THEN Read(b[pos + 1] + 256 * b[pos + 2] + 65536 * b[pos + 3]
                + 16777216 * b[pos + 4], pos + 4)
    ELSE Err("DataEmpty")

ReadI16(b, pos) ==
    LET r == ReadU16(b, pos)
    IN  IF ~r.ok THEN r
        ELSE Read(IF r.val.v >= 32768 THEN r.val.v - 65536 ELSE r.val.v, r.val.pos)

\* A bool is one byte on the wire; the struct field keeps a bool.
ReadBool(b, pos) ==
    LET r == ReadU8(b, pos)
    IN  IF ~r.ok THEN r ELSE Read(r.val.v # 0, r.val.pos)

ReadObjectId(b, pos) ==
    IF Len(b) - pos >= 2
    THEN Read(ObjectIdFromLeBytes(b[pos + 1], b[pos + 2]), pos + 2)
    ELSE Err("DataEmpty")

\* ObjectRef = ObjectId(2) + Point<i16>(4)
ReadObjectRef(b, pos) ==
    LET i == ReadObjectId(b, pos)
    IN  IF ~i.ok THEN i
        ELSE LET x == ReadI16(b, i.val.pos)
             IN  IF ~x.ok THEN x
                 ELSE LET y == ReadI16(b, x.val.pos)
                      IN  IF ~y.ok THEN y
                          ELSE Read([id |-> i.val.v,
                                     offset |-> [x |-> x.val.v, y |-> y.val.v]],
                                    y.val.pos)

\* MacroRef = 2 bytes
ReadMacroRef(b, pos) ==
    LET m == ReadU8(b, pos)
    IN  IF ~m.ok THEN m
        ELSE LET e == ReadU8(b, m.val.pos)
             IN  IF ~e.ok THEN e
                 ELSE Read([macro_id |-> m.val.v, event_id |-> e.val.v], e.val.pos)

ReadElement(type, b, pos) ==
    CASE type = "ids" -> ReadObjectId(b, pos)
      [] type = "object_refs" -> ReadObjectRef(b, pos)
      [] type = "macro_refs" -> ReadMacroRef(b, pos)

RECURSIVE ReadElements(_, _, _, _, _)
ReadElements(type, n, b, pos, acc) ==
    IF n = 0 THEN Read(acc, pos)
    ELSE LET r == ReadElement(type, b, pos)
         IN  IF ~r.ok THEN r
             ELSE ReadElements(type, n - 1, b, r.val.pos, Append(acc, r.val.v))

\* A counted section: a one-byte count n, then exactly n elements.
ReadSection(type, b, pos) ==
    LET n == ReadU8(b, pos)
    IN  IF ~n.ok THEN n ELSE ReadElements(type, n.val.v, b, n.val.pos, <<>>)

ReadField(type, b, pos) ==
    CASE type = "u8" -> ReadU8(b, pos)
      [] type = "bool" -> ReadBool(b, pos)
      [] type = "u16" -> ReadU16(b, pos)
      [] type = "u32" -> ReadU32(b, pos)
      [] type = "id" -> ReadObjectId(b, pos)
      [] OTHER -> ReadSection(type, b, pos)

RECURSIVE ReadFields(_, _, _, _)
ReadFields(fs, b, pos, acc) ==
    IF fs = <<>> THEN Read(acc, pos)
    ELSE LET r == ReadField(fs[1][2], b, pos)
         IN  IF ~r.ok THEN r
             ELSE ReadFields(Tail(fs), b, r.val.pos, acc @@ (fs[1][1] :> r.val.v))

\* The per-object algorithm: the id, the type byte through the registry, the
\* fixed fields and the counted sections; then the assembled variant.
ReadObject(b, pos) ==
    LET i == ReadObjectId(b, pos)
    IN  IF ~i.ok THEN i
        ELSE LET t == ReadU8(b, i.val.pos)
             IN  IF ~t.ok THEN t
                 ELSE LET k == ObjectTypeTryFrom(t.val.v)
                      IN  IF ~k.ok THEN k
                          ELSE ReadFields(Fields(k.val), b, t.val.pos,
                                          [id |-> i.val.v, kind |-> k.val])

NotDecoded == [done |-> FALSE, ok |-> FALSE, objs |-> <<>>, err |-> "none", index |-> 0, offset |-> 0]

\* Whole-pool decode: objects are read until the buffer is exhausted.  A failing
\* object fails the whole decode with its error, its index and its offset, and
\* no object is returned.
RECURSIVE ReadObjects(_, _, _)
ReadObjects(b, pos, objs) ==
    IF pos >= Len(b)
    THEN [done |-> TRUE, ok |-> TRUE, objs |-> objs, err |-> "none",
          index |-> Len(objs), offset |-> pos]
    ELSE LET r == ReadObject(b, pos)
         IN  IF ~r.ok
             THEN [done |-> TRUE, ok |-> FALSE, objs |-> <<>>, err |-> r.err,
                   index |-> Len(objs), offset |-> pos]
             ELSE ReadObjects(b, r.val.pos, Append(objs, r.val.v))

\* A variant of the whole-pool decode that hands back the objects read before
\* the failing one.
RECURSIVE ReadObjectsPartial(_, _, _)
ReadObjectsPartial(b, pos, objs) ==
    IF pos >= Len(b)
    THEN [done |-> TRUE, ok |-> TRUE, objs |-> objs, err |-> "none",
          index |-> Len(objs), offset |-> pos]
    ELSE LET r == ReadObject(b, pos)
         IN  IF ~r.ok
             THEN [done |-> TRUE, ok |-> FALSE, objs |-> objs, err |-> r.err,
                   index |-> Len(objs), offset |-> pos]
             ELSE ReadObjectsPartial(b, r.val.pos, Append(objs, r.val.v))

ReadPool_Partial(b) == ReadObjectsPartial(b, 0, <<>>)

ReadPool(b) == ReadObjects(b, 0, <<>>)

(***************************************************************************)
(* Writer: the structural inverse of the reader.                           *)
(***************************************************************************)
WriteU16(v) == <<v % 256, v \div 256>>

WriteU32(v) ==
    <<v % 256, (v \div 256) % 256, (v \div 65536) % 256, v \div 16777216>>

WriteI16(v) == WriteU16(IF v < 0 THEN v + 65536 ELSE v)

\* bool as u8
WriteBool(v) == IF v THEN <<1>> ELSE <<0>>

WriteElement(type, e) ==
    CASE type = "ids" -> ObjectIdToLeBytes(e)
      [] type = "object_refs" ->
            ObjectIdToLeBytes(e.id) \o WriteI16(e.offset.x) \o WriteI16(e.offset.y)
      [] type = "macro_refs" -> <<e.macro_id, e.event_id>>

RECURSIVE WriteElements(_, _)
WriteElements(type, es) ==
    IF es = <<>> THEN <<>>
    ELSE WriteElement(type, Head(es)) \o WriteElements(type, Tail(es))

\* The count byte is derived from the length of the sequence.
WriteSection(type, es) == <<Len(es)>> \o WriteElements(type, es)

WriteField(type, v) ==
    CASE type = "u8" -> <<v>>
      [] type = "bool" -> WriteBool(v)
      [] type = "u16" -> WriteU16(v)
      [] type = "u32" -> WriteU32(v)
      [] type = "id" -> ObjectIdToLeBytes(v)
      [] OTHER -> WriteSection(type, v)

RECURSIVE WriteFields(_, _)
WriteFields(fs, o) ==
    IF fs = <<>> THEN <<>>
    ELSE WriteField(fs[1][2], o[fs[1][1]]) \o WriteFields(Tail(fs), o)

WriteObject(o) ==
    ObjectIdToLeBytes(ObjectIdOf(o)) \o <<ObjectTypeToU8(ObjectTypeOf(o))>>
        \o WriteFields(Fields(ObjectTypeOf(o)), o)

RECURSIVE WriteObjects(_)
WriteObjects(objs) ==
    IF objs = <<>> THEN <<>>
    ELSE WriteObject(Head(objs)) \o WriteObjects(Tail(objs))

(***************************************************************************)
(* ObjectPool: the objects in stream order and the index from ObjectId to  *)
(* position.  NULL identifies no object and is not indexed.                *)
(***************************************************************************)
EmptyPool == [objects |-> <<>>, index |-> <<>>]

Insert(p, o) ==
    LET id == ObjectIdOf(o)
    IN  IF id # NULL /\ id \in DOMAIN p.index
        THEN Err("DuplicateId")
        ELSE Ok([objects |-> Append(p.objects, o),
                 index |-> IF id = NULL THEN p.index
                           ELSE (id :> Len(p.objects) + 1) @@ p.index])

RECURSIVE InsertAll(_, _)
InsertAll(p, objs) ==
    IF objs = <<>> THEN Ok(p)
    ELSE LET r == Insert(p, Head(objs))
         IN  IF ~r.ok THEN r ELSE InsertAll(r.val, Tail(objs))

BuildFromSequence(objs) == InsertAll(EmptyPool, objs)

\* The ids an object refers to, field by field: ObjectId fields other than
\* its own id, list items, ObjectRef ids and MacroRef macro ids.
FieldReferences(type, v) ==
    CASE type = "id" -> <<v>>
      [] type = "ids" -> v
      [] type = "object_refs" -> [i \in 1..Len(v) |-> v[i].id]
      [] type = "macro_refs" -> [i \in 1..Len(v) |-> v[i].macro_id]
      [] OTHER -> <<>>

RECURSIVE References(_, _)
References(fs, o) ==
    IF fs = <<>> THEN <<>>
    ELSE FieldReferences(fs[1][2], o[fs[1][1]]) \o References(Tail(fs), o)

RECURSIVE CollectDangling(_, _, _)
CollectDangling(refs, index, acc) ==
    IF refs = <<>> THEN acc
    ELSE CollectDangling(Tail(refs), index,
            IF Head(refs) # NULL /\ Head(refs) \notin DOMAIN index
            THEN acc \cup {Head(refs)} ELSE acc)

RECURSIVE WalkObjects(_, _, _)
WalkObjects(objs, index, acc) ==
    IF objs = <<>> THEN acc
    ELSE WalkObjects(Tail(objs), index,
            CollectDangling(References(Fields(ObjectTypeOf(Head(objs))), Head(objs)),
                            index, acc))

\* validate_references(): a pass over the assembled pool.
ValidateReferences(p) == WalkObjects(p.objects, p.index, {})

\* A variant of the pass that consumes the pool it walks.
ValidatePass_Consuming(p) == [dangling |-> ValidateReferences(p), pool |-> EmptyPool]

\* One call of validate_references(): the set it returns and the pool it
\* leaves behind.
ValidatePass(p) == [dangling |-> ValidateReferences(p), pool |-> p]

\* A variant of get that ignores the index and answers with the first object.
Get_FirstObject(p, id) ==
    IF p.objects # <<>> THEN Ok(p.objects[1]) ELSE Err("NotFound")

\* get(id): lookup through the index from ObjectId to position.
Get(p, id) ==
    IF id \in DOMAIN p.index THEN Ok(p.objects[p.index[id]]) ELSE Err("NotFound")

\* A variant of iter that drains the pool while producing its objects.
Iter_Draining(p) == [items |-> p.objects, pool |-> EmptyPool]

\* iter(): the objects it produces, in order, and the pool it leaves behind.
Iter(p) == [items |-> p.objects, pool |-> p]

(***************************************************************************)
(* Colour: four 8-bit channels.                                            *)
(***************************************************************************)
Colour(red, green, blue, alpha) == [r |-> red, g |-> green, b |-> blue, a |-> alpha]

\* A 32-bit value, held as its two 16-bit halves (the integers of the model
\* checker stop at 2^31 - 1): the value is lo + 65536 * hi.
U32Halves(lo16, hi16) == [lo |-> lo16, hi |-> hi16]

\* u32::to_le_bytes
U32ToLeBytes(val) == <<val.lo % 256, val.lo \div 256, val.hi % 256, val.hi \div 256>>

\* A variant that assigns the bytes in the order the struct declares its
\* fields: a, r, g, b.
ColourFromU32_DeclarationOrder(val) ==
    LET b == U32ToLeBytes(val) IN Colour(b[2], b[3], b[4], b[1])

\* impl From<u32> for Colour
ColourFromU32(val) ==
    LET b == U32ToLeBytes(val) IN Colour(b[1], b[2], b[3], b[4])

\* A variant of the palette whose last 24 entries are a grey ramp.
COLOUR_PALETTE_GreyRamp ==
    [i \in 1..256 |-> IF i <= 232 THEN Colour(0, 0, 0, 255)
                      ELSE Colour(8 + 10 * (i - 233), 8 + 10 * (i - 233),
                                  8 + 10 * (i - 233), 255)]

\* Colour::COLOUR_PALETTE, entry k of the array at position k + 1.
COLOUR_PALETTE ==
    <<Colour(0, 0, 0, 255), Colour(255, 255, 255, 255), Colour(0, 153, 0, 255), Colour(0, 153, 153, 255),
       Colour(153, 0, 0, 255), Colour(153, 0, 153, 255), Colour(153, 153, 0, 255), Colour(204, 204, 204, 255),
       Colour(153, 153, 153, 255), Colour(0, 0, 255, 255), Colour(0, 255, 0, 255), Colour(0, 255, 255, 255),
       Colour(255, 0, 0, 255), Colour(255, 0, 255, 255), Colour(255, 255, 0, 255), Colour(0, 0, 153, 255),
       Colour(0, 0, 0, 255), Colour(0, 0, 51, 255), Colour(0, 0, 102, 255), Colour(0, 0, 153, 255),
       Colour(0, 0, 204, 255), Colour(0, 0, 255, 255), Colour(0, 51, 0, 255), Colour(0, 51, 51, 255),
       Colour(0, 51, 102, 255), Colour(0, 51, 153, 255), Colour(0, 51, 204, 255), Colour(0, 51, 255, 255),
       Colour(0, 102, 0, 255), Colour(0, 102, 51, 255), Colour(0, 102, 102, 255), Colour(0, 102, 153, 255),
       Colour(0, 102, 204, 255), Colour(0, 102, 255, 255), Colour(0, 153, 0, 255), Colour(0, 153, 51, 255),
       Colour(0, 153, 102, 255), Colour(0, 153, 153, 255), Colour(0, 153, 204, 255), Colour(0, 153, 255, 255),
       Colour(0, 204, 0, 255), Colour(0, 204, 51, 255), Colour(0, 204, 102, 255), Colour(0, 204, 153, 255),
       Colour(0, 204, 204, 255), Colour(0, 204, 255, 255), Colour(0, 255, 0, 255), Colour(0, 255, 51, 255),
       Colour(0, 255, 102, 255), Colour(0, 255, 153, 255), Colour(0, 255, 204, 255), Colour(0, 255, 255, 255),
       Colour(51, 0, 0, 255), Colour(51, 0, 51, 255), Colour(51, 0, 102, 255), Colour(51, 0, 153, 255),
       Colour(51, 0, 204, 255), Colour(51, 0, 255, 255), Colour(51, 51, 0, 255), Colour(51, 51, 51, 255),
       Colour(51, 51, 102, 255), Colour(51, 51, 153, 255), Colour(51, 51, 204, 255), Colour(51, 51, 255, 255),
       Colour(51, 102, 0, 255), Colour(51, 102, 51, 255), Colour(51, 102, 102, 255), Colour(51, 102, 153, 255),
       Colour(51, 102, 204, 255), Colour(51, 102, 255, 255), Colour(51, 153, 0, 255), Colour(51, 153, 51, 255),
       Colour(51, 153, 102, 255), Colour(51, 153, 153, 255), Colour(51, 153, 204, 255), Colour(51, 153, 255, 255),
       Colour(51, 204, 0, 255), Colour(51, 204, 51, 255), Colour(51, 204, 102, 255), Colour(51, 204, 153, 255),
       Colour(51, 204, 204, 255), Colour(51, 204, 255, 255), Colour(51, 255, 0, 255), Colour(51, 255, 51, 255),
       Colour(51, 255, 102, 255), Colour(51, 255, 153, 255), Colour(51, 255, 204, 255), Colour(51, 255, 255, 255),
       Colour(102, 0, 0, 255), Colour(102, 0, 51, 255), Colour(102, 0, 102, 255), Colour(102, 0, 153, 255),
       Colour(102, 0, 204, 255), Colour(102, 0, 255, 255), Colour(102, 51, 0, 255), Colour(102, 51, 51, 255),
       Colour(102, 51, 102, 255), Colour(102, 51, 153, 255), Colour(102, 51, 204, 255), Colour(102, 51, 255, 255),
       Colour(102, 102, 0, 255), Colour(102, 102, 51, 255), Colour(102, 102, 102, 255), Colour(102, 102, 153, 255),
       Colour(102, 102, 204, 255), Colour(102, 102, 255, 255), Colour(102, 153, 0, 255), Colour(102, 153, 51, 255),
       Colour(102, 153, 102, 255), Colour(102, 153, 153, 255), Colour(102, 153, 204, 255), Colour(102, 153, 255, 255),
       Colour(102, 204, 0, 255), Colour(102, 204, 51, 255), Colour(102, 204, 102, 255), Colour(102, 204, 153, 255),
       Colour(102, 204, 204, 255), Colour(102, 204, 255, 255), Colour(102, 255, 0, 255), Colour(102, 255, 51, 255),
       Colour(102, 255, 102, 255), Colour(102, 255, 153, 255), Colour(102, 255, 204, 255), Colour(102, 255, 255, 255),
       Colour(153, 0, 0, 255), Colour(153, 0, 51, 255), Colour(153, 0, 102, 255), Colour(153, 0, 153, 255),
       Colour(153, 0, 204, 255), Colour(153, 0, 255, 255), Colour(153, 51, 0, 255), Colour(153, 51, 51, 255),
       Colour(153, 51, 102, 255), Colour(153, 51, 153, 255), Colour(153, 51, 204, 255), Colour(153, 51, 255, 255),
       Colour(153, 102, 0, 255), Colour(153, 102, 51, 255), Colour(153, 102, 102, 255), Colour(153, 102, 153, 255),
       Colour(153, 102, 204, 255), Colour(153, 102, 255, 255), Colour(153, 153, 0, 255), Colour(153, 153, 51, 255),
       Colour(153, 153, 102, 255), Colour(153, 153, 153, 255), Colour(153, 153, 204, 255), Colour(153, 153, 255, 255),
       Colour(153, 204, 0, 255), Colour(153, 204, 51, 255), Colour(153, 204, 102, 255), Colour(153, 204, 153, 255),
       Colour(153, 204, 204, 255), Colour(153, 204, 255, 255), Colour(153, 255, 0, 255), Colour(153, 255, 51, 255),
       Colour(153, 255, 102, 255), Colour(153, 255, 153, 255), Colour(153, 255, 204, 255), Colour(153, 255, 255, 255),
       Colour(204, 0, 0, 255), Colour(204, 0, 51, 255), Colour(204, 0, 102, 255), Colour(204, 0, 153, 255),
       Colour(204, 0, 204, 255), Colour(204, 0, 255, 255), Colour(204, 51, 0, 255), Colour(204, 51, 51, 255),
       Colour(204, 51, 102, 255), Colour(204, 51, 153, 255), Colour(204, 51, 204, 255), Colour(204, 51, 255, 255),
       Colour(204, 102, 0, 255), Colour(204, 102, 51, 255), Colour(204, 102, 102, 255), Colour(204, 102, 153, 255),
       Colour(204, 102, 204, 255), Colour(204, 102, 255, 255), Colour(204, 153, 0, 255), Colour(204, 153, 51, 255),
       Colour(204, 153, 102, 255), Colour(204, 153, 153, 255), Colour(204, 153, 204, 255), Colour(204, 153, 255, 255),
       Colour(204, 204, 0, 255), Colour(204, 204, 51, 255), Colour(204, 204, 102, 255), Colour(204, 204, 153, 255),
       Colour(204, 204, 204, 255), Colour(204, 204, 255, 255), Colour(204, 255, 0, 255), Colour(204, 255, 51, 255),
       Colour(204, 255, 102, 255), Colour(204, 255, 153, 255), Colour(204, 255, 204, 255), Colour(204, 255, 255, 255),
       Colour(255, 0, 0, 255), Colour(255, 0, 51, 255), Colour(255, 0, 102, 255), Colour(255, 0, 153, 255),
       Colour(255, 0, 204, 255), Colour(255, 0, 255, 255), Colour(255, 51, 0, 255), Colour(255, 51, 51, 255),
       Colour(255, 51, 102, 255), Colour(255, 51, 153, 255), Colour(255, 51, 204, 255), Colour(255, 51, 255, 255),
       Colour(255, 102, 0, 255), Colour(255, 102, 51, 255), Colour(255, 102, 102, 255), Colour(255, 102, 153, 255),
       Colour(255, 102, 204, 255), Colour(255, 102, 255, 255), Colour(255, 153, 0, 255), Colour(255, 153, 51, 255),
       Colour(255, 153, 102, 255), Colour(255, 153, 153, 255), Colour(255, 153, 204, 255), Colour(255, 153, 255, 255),
       Colour(255, 204, 0, 255), Colour(255, 204, 51, 255), Colour(255, 204, 102, 255), Colour(255, 204, 153, 255),
       Colour(255, 204, 204, 255), Colour(255, 204, 255, 255), Colour(255, 255, 0, 255), Colour(255, 255, 51, 255),
       Colour(255, 255, 102, 255), Colour(255, 255, 153, 255), Colour(255, 255, 204, 255), Colour(255, 255, 255, 255),
       Colour(0, 0, 0, 255), Colour(0, 0, 0, 255), Colour(0, 0, 0, 255), Colour(0, 0, 0, 255),
       Colour(0, 0, 0, 255), Colour(0, 0, 0, 255), Colour(0, 0, 0, 255), Colour(0, 0, 0, 255),
       Colour(0, 0, 0, 255), Colour(0, 0, 0, 255), Colour(0, 0, 0, 255), Colour(0, 0, 0, 255),
       Colour(0, 0, 0, 255), Colour(0, 0, 0, 255), Colour(0, 0, 0, 255), Colour(0, 0, 0, 255),
       Colour(0, 0, 0, 255), Colour(0, 0, 0, 255), Colour(0, 0, 0, 255), Colour(0, 0, 0, 255),
       Colour(0, 0, 0, 255), Colour(0, 0, 0, 255), Colour(0, 0, 0, 255), Colour(0, 0, 0, 255)>>

\* A variant of indexing that counts entries from one.
PaletteEntry_OneBased(index) ==
    IF index \in DOMAIN COLOUR_PALETTE THEN Ok(COLOUR_PALETTE[index])
    ELSE Err("IndexOutOfBounds")

\* Indexing the palette array: out of bounds panics.
PaletteEntry(index) ==
    IF index + 1 \in DOMAIN COLOUR_PALETTE THEN Ok(COLOUR_PALETTE[index + 1])
    ELSE Err("IndexOutOfBounds")

\* The named colour constants, each a palette entry.
ColourConstantNames ==
    {"BLACK", "WHITE", "GREEN", "TEAL",
     "MAROON", "PURPLE", "OLIVE", "SILVER",
     "GREY", "BLUE", "LIME", "CYAN",
     "RED", "MAGENTA", "YELLOW", "NAVY"}

ColourConstant(name) ==
    CASE name = "BLACK" -> PaletteEntry(0)
      [] name = "WHITE" -> PaletteEntry(1)
      [] name = "GREEN" -> PaletteEntry(2)
      [] name = "TEAL" -> PaletteEntry(3)
      [] name = "MAROON" -> PaletteEntry(4)
      [] name = "PURPLE" -> PaletteEntry(5)
      [] name = "OLIVE" -> PaletteEntry(6)
      [] name = "SILVER" -> PaletteEntry(7)
      [] name = "GREY" -> PaletteEntry(8)
      [] name = "BLUE" -> PaletteEntry(9)
      [] name = "LIME" -> PaletteEntry(10)
      [] name = "CYAN" -> PaletteEntry(11)
      [] name = "RED" -> PaletteEntry(12)
      [] name = "MAGENTA" -> PaletteEntry(13)
      [] name = "YELLOW" -> PaletteEntry(14)
      [] name = "NAVY" -> PaletteEntry(15)

\* A variant of the default as #[derive(Default)] would give it: all zero.
ColourDefault_Derived == Ok(Colour(0, 0, 0, 0))

\* impl Default for Colour
ColourDefault == ColourConstant("GREY")

(***************************************************************************)
(* NAME fields: industry group and device class.                           *)
(***************************************************************************)
\* enum IndustryGroup with its explicit discriminants.
IndustryGroupDiscriminant ==
    [Global |-> 0,
     OnHighwayEquipment |-> 1,
     AgriculturalAndForestryEquipment |-> 2,
     ConstructionEquipment |-> 3,
     MarineEquipment |-> 4,
     IndustrialProcessControl |-> 5,
     ReservedForSAE1 |-> 6,
     ReservedForSAE2 |-> 7]

IndustryGroup == DOMAIN IndustryGroupDiscriminant

\* The outcome of reaching unreachable!(): the call panics, it returns
\* neither a value nor one of the error values.
Unreachable == Err("unreachable!")

\* A variant of the conversion to u8 that numbers the groups from one.
IndustryGroupToU8_OneBased(value) == IndustryGroupDiscriminant[value] + 1

\* impl From<IndustryGroup> for u8: value as u8
IndustryGroupToU8(value) == IndustryGroupDiscriminant[value]

\* A variant of the conversion from u8 that keeps the low three bits, the
\* width of the industry-group field, and so answers for every byte.
IndustryGroupFromU8_Masked(value) ==
    Ok(CHOOSE g \in IndustryGroup : IndustryGroupDiscriminant[g] = value % 8)

\* impl From<u8> for IndustryGroup
IndustryGroupFromU8(value) ==
    CASE value = 0 -> Ok("Global")
      [] value = 1 -> Ok("OnHighwayEquipment")
      [] value = 2 -> Ok("AgriculturalAndForestryEquipment")
      [] value = 3 -> Ok("ConstructionEquipment")
      [] value = 4 -> Ok("MarineEquipment")
      [] value = 5 -> Ok("IndustrialProcessControl")
      [] value = 6 -> Ok("ReservedForSAE1")
      [] value = 7 -> Ok("ReservedForSAE2")
      [] OTHER -> Unreachable

\* enum DeviceClass: a unit variant carries no industry group, the variants
\* NonSpecificSystem and Tractor carry one.
Unit(name) == [name |-> name, ig |-> "-"]

WithGroup(name, ig) == [name |-> name, ig |-> ig]

\* The variants of DeviceClass in declaration order.
DeviceClassDeclaration ==
    <<"NotAvailable", "NonSpecificSystem", "Tractor",
      "Trailer", "Tillage", "SecondaryTillage",
      "PlantersOrSeeders", "Fertilizers", "Sprayers",
      "Harvesters", "RootHarvesters", "Forage",
      "Irrigation", "TransportOrTrailer", "FarmYardOperations",
      "PoweredAuxiliaryDevices", "SpecialCrops", "EarthWork",
      "Skidder", "SensorSystems", "TimberHarvesters",
      "Forwarders", "TimberLoaders", "TimberProcessingMachines",
      "Mulchers", "UtilityVehicles", "SlurryOrManureApplicators",
      "FeedersOrMixers", "Weeders", "SkidSteerLoader",
      "ArticulatedDumpTruck", "Backhoe", "Crawler",
      "Excavator", "Forklift", "FourWheelDriveLoader",
      "Grader", "MillingMachine", "RecyclerAndSoilStabilizer",
      "BindingAgentSpreader", "Paver", "Feeder",
      "ScreeningPlant", "Stacker", "Roller",
      "Crusher", "SystemTools", "SafetySystems",
      "Gateway", "PowerManagementAndLightingSystems", "Steeringsystems",
      "NavigationSystems", "CommunicationsSystems", "InstrumentationOrGeneralSystems",
      "EnvironmentalSystems", "DeckCargoAndFishingEquipmentSystems", "IndustrialProcessControlStationary">>

GroupedDeviceClasses == {"NonSpecificSystem", "Tractor"}

DeviceClassValues ==
    {Unit(DeviceClassDeclaration[i]) :
        i \in {j \in DOMAIN DeviceClassDeclaration :
                 DeviceClassDeclaration[j] \notin GroupedDeviceClasses}}
    \cup {WithGroup(n, g) : n \in GroupedDeviceClasses, g \in IndustryGroup}

\* A variant of the conversion to u8 that answers the variant's position in
\* the declaration, as a cast of a field-less enum would.
DeviceClassToU8_Ordinal(value) ==
    (CHOOSE i \in DOMAIN DeviceClassDeclaration : DeviceClassDeclaration[i] = value.name) - 1

\* A variant of the conversion to u8 that encodes "not available" as all
\* eight bits set.
DeviceClassToU8_AllOnes(value) ==
    IF value.name = "NotAvailable" THEN 255
    ELSE (CHOOSE i \in DOMAIN DeviceClassDeclaration : DeviceClassDeclaration[i] = value.name) - 1

\* impl From<DeviceClass> for u8
DeviceClassToU8(value) ==
    CASE value.name = "NotAvailable" -> 127
      [] value.name = "NonSpecificSystem" -> 0
      [] value.name = "Tractor" -> 1
      [] value.name = "Trailer" -> 2
      [] value.name = "Tillage" -> 2
      [] value.name = "SecondaryTillage" -> 3
      [] value.name = "PlantersOrSeeders" -> 4
      [] value.name = "Fertilizers" -> 5
      [] value.name = "Sprayers" -> 6
      [] value.name = "Harvesters" -> 7
      [] value.name = "RootHarvesters" -> 8
      [] value.name = "Forage" -> 9
      [] value.name = "Irrigation" -> 10
      [] value.name = "TransportOrTrailer" -> 11
      [] value.name = "FarmYardOperations" -> 12
      [] value.name = "PoweredAuxiliaryDevices" -> 13
      [] value.name = "SpecialCrops" -> 14
      [] value.name = "EarthWork" -> 15
      [] value.name = "Skidder" -> 16
      [] value.name = "SensorSystems" -> 17
      [] value.name = "TimberHarvesters" -> 19
      [] value.name = "Forwarders" -> 20
      [] value.name = "TimberLoaders" -> 21
      [] value.name = "TimberProcessingMachines" -> 22
      [] value.name = "Mulchers" -> 23
      [] value.name = "UtilityVehicles" -> 24
      [] value.name = "SlurryOrManureApplicators" -> 25
      [] value.name = "FeedersOrMixers" -> 26
      [] value.name = "Weeders" -> 27
      [] value.name = "SkidSteerLoader" -> 1
      [] value.name = "ArticulatedDumpTruck" -> 2
      [] value.name = "Backhoe" -> 3
      [] value.name = "Crawler" -> 4
      [] value.name = "Excavator" -> 5
      [] value.name = "Forklift" -> 6
      [] value.name = "FourWheelDriveLoader" -> 7
      [] value.name = "Grader" -> 8
      [] value.name = "MillingMachine" -> 9
      [] value.name = "RecyclerAndSoilStabilizer" -> 10
      [] value.name = "BindingAgentSpreader" -> 11
      [] value.name = "Paver" -> 12
      [] value.name = "Feeder" -> 13
      [] value.name = "ScreeningPlant" -> 14
      [] value.name = "Stacker" -> 15
      [] value.name = "Roller" -> 16
      [] value.name = "Crusher" -> 17
      [] value.name = "SystemTools" -> 10
      [] value.name = "SafetySystems" -> 20
      [] value.name = "Gateway" -> 25
      [] value.name = "PowerManagementAndLightingSystems" -> 30
      [] value.name = "Steeringsystems" -> 40
      [] value.name = "NavigationSystems" -> 60
      [] value.name = "CommunicationsSystems" -> 70
      [] value.name = "InstrumentationOrGeneralSystems" -> 80
      [] value.name = "EnvironmentalSystems" -> 90
      [] value.name = "DeckCargoAndFishingEquipmentSystems" -> 100
      [] value.name = "IndustrialProcessControlStationary" -> 0

\* A variant of the conversion from (u8, IndustryGroup) that knows only the
\* shared codes 0 and 1.
DeviceClassFromCode_SharedOnly(v, ig) ==
    IF v = 0 THEN WithGroup("NonSpecificSystem", ig)
    ELSE IF v = 1 THEN WithGroup("Tractor", ig)
    ELSE Unit("NotAvailable")

\* impl From<(u8, IndustryGroup)> for DeviceClass: the first matching arm
\* wins; only the two arms for code 0 overlap.
DeviceClassFromCode(v, ig) ==
    IF v = 0 /\ ig = "IndustrialProcessControl" THEN Unit("IndustrialProcessControlStationary")
    ELSE IF v = 0 THEN WithGroup("NonSpecificSystem", ig)
    ELSE
    CASE v = 1 /\ ig = "OnHighwayEquipment" -> WithGroup("Tractor", "OnHighwayEquipment")
      [] v = 2 /\ ig = "OnHighwayEquipment" -> Unit("Trailer")
      [] v = 1 /\ ig = "AgriculturalAndForestryEquipment" -> WithGroup("Tractor", "AgriculturalAndForestryEquipment")
      [] v = 2 /\ ig = "AgriculturalAndForestryEquipment" -> Unit("Tillage")
      [] v = 3 /\ ig = "AgriculturalAndForestryEquipment" -> Unit("SecondaryTillage")
      [] v = 4 /\ ig = "AgriculturalAndForestryEquipment" -> Unit("PlantersOrSeeders")
      [] v = 5 /\ ig = "AgriculturalAndForestryEquipment" -> Unit("Fertilizers")
      [] v = 6 /\ ig = "AgriculturalAndForestryEquipment" -> Unit("Sprayers")
      [] v = 7 /\ ig = "AgriculturalAndForestryEquipment" -> Unit("Harvesters")
      [] v = 8 /\ ig = "AgriculturalAndForestryEquipment" -> Unit("RootHarvesters")
      [] v = 9 /\ ig = "AgriculturalAndForestryEquipment" -> Unit("Forage")
      [] v = 10 /\ ig = "AgriculturalAndForestryEquipment" -> Unit("Irrigation")
      [] v = 11 /\ ig = "AgriculturalAndForestryEquipment" -> Unit("TransportOrTrailer")
      [] v = 12 /\ ig = "AgriculturalAndForestryEquipment" -> Unit("FarmYardOperations")
      [] v = 13 /\ ig = "AgriculturalAndForestryEquipment" -> Unit("PoweredAuxiliaryDevices")
      [] v = 14 /\ ig = "AgriculturalAndForestryEquipment" -> Unit("SpecialCrops")
      [] v = 15 /\ ig = "AgriculturalAndForestryEquipment" -> Unit("EarthWork")
      [] v = 16 /\ ig = "AgriculturalAndForestryEquipment" -> Unit("Skidder")
      [] v = 17 /\ ig = "AgriculturalAndForestryEquipment" -> Unit("SensorSystems")
      [] v = 19 /\ ig = "AgriculturalAndForestryEquipment" -> Unit("TimberHarvesters")
      [] v = 20 /\ ig = "AgriculturalAndForestryEquipment" -> Unit("Forwarders")
      [] v = 21 /\ ig = "AgriculturalAndForestryEquipment" -> Unit("TimberLoaders")
      [] v = 22 /\ ig = "AgriculturalAndForestryEquipment" -> Unit("TimberProcessingMachines")
      [] v = 23 /\ ig = "AgriculturalAndForestryEquipment" -> Unit("Mulchers")
      [] v = 24 /\ ig = "AgriculturalAndForestryEquipment" -> Unit("UtilityVehicles")
      [] v = 25 /\ ig = "AgriculturalAndForestryEquipment" -> Unit("SlurryOrManureApplicators")
      [] v = 26 /\ ig = "AgriculturalAndForestryEquipment" -> Unit("FeedersOrMixers")
      [] v = 27 /\ ig = "AgriculturalAndForestryEquipment" -> Unit("Weeders")
      [] v = 1 /\ ig = "ConstructionEquipment" -> Unit("SkidSteerLoader")
      [] v = 2 /\ ig = "ConstructionEquipment" -> Unit("ArticulatedDumpTruck")
      [] v = 3 /\ ig = "ConstructionEquipment" -> Unit("Backhoe")
      [] v = 4 /\ ig = "ConstructionEquipment" -> Unit("Crawler")
      [] v = 5 /\ ig = "ConstructionEquipment" -> Unit("Excavator")
      [] v = 6 /\ ig = "ConstructionEquipment" -> Unit("Forklift")
      [] v = 7 /\ ig = "ConstructionEquipment" -> Unit("FourWheelDriveLoader")
      [] v = 8 /\ ig = "ConstructionEquipment" -> Unit("Grader")
      [] v = 9 /\ ig = "ConstructionEquipment" -> Unit("MillingMachine")
      [] v = 10 /\ ig = "ConstructionEquipment" -> Unit("RecyclerAndSoilStabilizer")
      [] v = 11 /\ ig = "ConstructionEquipment" -> Unit("BindingAgentSpreader")
      [] v = 12 /\ ig = "ConstructionEquipment" -> Unit("Paver")
      [] v = 13 /\ ig = "ConstructionEquipment" -> Unit("Feeder")
      [] v = 14 /\ ig = "ConstructionEquipment" -> Unit("ScreeningPlant")
      [] v = 15 /\ ig = "ConstructionEquipment" -> Unit("Stacker")
      [] v = 16 /\ ig = "ConstructionEquipment" -> Unit("Roller")
      [] v = 17 /\ ig = "ConstructionEquipment" -> Unit("Crusher")
      [] v = 10 /\ ig = "MarineEquipment" -> Unit("SystemTools")
      [] v = 20 /\ ig = "MarineEquipment" -> Unit("SafetySystems")
      [] v = 25 /\ ig = "MarineEquipment" -> Unit("Gateway")
      [] v = 30 /\ ig = "MarineEquipment" -> Unit("PowerManagementAndLightingSystems")
      [] v = 40 /\ ig = "MarineEquipment" -> Unit("Steeringsystems")
      [] v = 60 /\ ig = "MarineEquipment" -> Unit("NavigationSystems")
      [] v = 70 /\ ig = "MarineEquipment" -> Unit("CommunicationsSystems")
      [] v = 80 /\ ig = "MarineEquipment" -> Unit("InstrumentationOrGeneralSystems")
      [] v = 90 /\ ig = "MarineEquipment" -> Unit("EnvironmentalSystems")
      [] v = 100 /\ ig = "MarineEquipment" -> Unit("DeckCargoAndFishingEquipmentSystems")
      [] OTHER -> Unit("NotAvailable")

\* A variant of the derivation that knows the carried group only and answers
\* the default group for every unit variant.
IndustryGroupFromDeviceClass_CarriedOnly(value) ==
    IF value.name \in GroupedDeviceClasses THEN value.ig ELSE "Global"

\* impl From<DeviceClass> for IndustryGroup
IndustryGroupFromDeviceClass(value) ==
    CASE value.name = "NotAvailable" -> "Global"
      [] value.name \in
            {"NonSpecificSystem", "Tractor"} -> value.ig
      [] value.name = "Trailer" -> "OnHighwayEquipment"
      [] value.name \in
            {"Tillage", "SecondaryTillage", "PlantersOrSeeders",
             "Fertilizers", "Sprayers", "Harvesters",
             "RootHarvesters", "Forage", "Irrigation",
             "TransportOrTrailer", "FarmYardOperations", "PoweredAuxiliaryDevices",
             "SpecialCrops", "EarthWork", "Skidder",
             "SensorSystems", "TimberHarvesters", "Forwarders",
             "TimberLoaders", "TimberProcessingMachines", "Mulchers",
             "UtilityVehicles", "SlurryOrManureApplicators", "FeedersOrMixers",
             "Weeders"} -> "AgriculturalAndForestryEquipment"
      [] value.name \in
            {"SkidSteerLoader", "ArticulatedDumpTruck", "Backhoe",
             "Crawler", "Excavator", "Forklift",
             "FourWheelDriveLoader", "Grader", "MillingMachine",
             "RecyclerAndSoilStabilizer", "BindingAgentSpreader", "Paver",
             "Feeder", "ScreeningPlant", "Stacker",
             "Roller", "Crusher"} -> "ConstructionEquipment"
      [] value.name \in
            {"SystemTools", "SafetySystems", "Gateway",
             "PowerManagementAndLightingSystems", "Steeringsystems", "NavigationSystems",
             "CommunicationsSystems", "InstrumentationOrGeneralSystems", "EnvironmentalSystems",
             "DeckCargoAndFishingEquipmentSystems"} -> "MarineEquipment"
      [] value.name = "IndustrialProcessControlStationary" -> "IndustrialProcessControl"

(***************************************************************************)
(* Point<T> and the addition of a signed offset to an unsigned position.   *)
(***************************************************************************)
\* u16 as i16: the same 16 bits read as two's complement.
AsI16(val) == IF val >= 32768 THEN val - 65536 ELSE val

\* i16 as u16: the same 16 bits read as unsigned.
AsU16(val) == (val + 65536) % 65536

\* i16 + i16.  When the sum leaves the i16 range the outcome depends on the
\* build: with overflow checks (the debug profile) the addition panics,
\* without them (the release profile) it wraps.
AddI16(lhs, rhs, overflow_checks) ==
    IF lhs + rhs \in -32768..32767 THEN Ok(lhs + rhs)
    ELSE IF overflow_checks THEN Err("attempt to add with overflow")
    ELSE Ok(((lhs + rhs + 32768) % 65536) - 32768)

\* impl Add<Point<i16>> for Point<u16>: x is computed first, then y.
PointAdd(self, rhs, overflow_checks) ==
    LET x == AddI16(AsI16(self.x), rhs.x, overflow_checks)
        y == AddI16(AsI16(self.y), rhs.y, overflow_checks)
    IN  IF ~x.ok THEN x
        ELSE IF ~y.ok THEN y
        ELSE Ok([x |-> AsU16(x.val), y |-> AsU16(y.val)])

(***************************************************************************)
(* Struct literals.  The structs have public fields and no constructor     *)
(* function: a caller builds one from any field values.                    *)
(***************************************************************************)
MacroLiteral(id, commands) ==
    Ok([id |-> id, kind |-> "Macro", commands |-> commands])

WorkingSetLiteral(id, object_refs) ==
    Ok([id |-> id, kind |-> "WorkingSet", background_colour |-> 0,
        selectable |-> TRUE, active_mask |-> 65535, object_refs |-> object_refs,
        macro_refs |-> <<>>, language_codes |-> <<>>])

(***************************************************************************)
(* Bounds and sample inputs.                                               *)
(***************************************************************************)
MaxObjects == 2

MaxCut == 3

MaxPool == 3

MaxSlice == 3

SliceBytes == {0, 5, 255}

SampleSlices == UNION {[1..n -> SliceBytes] : n \in 0..MaxSlice}

SampleLengths == {0, 1, 255, 256}

U16 == 0..65535

AccessorIds == {0, 5, 4660, NULL}

ColourBytes == {0, 1, 128, 255}

\* Positions and offsets at the edges of the two 16-bit ranges.
SamplePositions == {0, 1, 32767, 32768, 65535}

SampleOffsets == {-32768, -1, 0, 1, 32767}

\* Ids asked of a pool: ids the sample objects define, ids they only refer
\* to, an id nothing mentions, and NULL.
QueryIds == {5, 16, 153, 154, 200, 4660, NULL}

EdgeBytes == {0, 1, 127, 128, 254, 255}

SampleU16 == {lo + 256 * hi : lo \in EdgeBytes, hi \in EdgeBytes}

\* Records as they lie in a pool file: id (2 bytes), type byte, body.
NumberVariableRecords ==
    {<<16, 0, 21, 42, 0, 0, 0>>, <<16, 0, 21, 0, 0, 0, 42>>, <<5, 0, 21, 0, 0, 0, 42>>}

ObjectPointerRecords ==
    {<<5, 0, 27, 16, 0>>, <<16, 0, 27, 255, 255>>, <<255, 255, 27, 153, 0>>}

SoftKeyMaskRecords ==
    {<<5, 0, 4, 1, 3, 153, 0, 16, 0, 154, 0, 0>>, <<16, 0, 4, 7, 0, 1, 5, 1>>}

ContainerRecords ==
    {<<5, 0, 3, 10, 0, 20, 1, h, 1, 16, 0, 255, 255, 2, 0, 0>> : h \in {0, 1, 2}}

UnknownTypeRecords == {<<5, 0, 49>>, <<16, 0, 255>>}

SampleRecords ==
    NumberVariableRecords \cup ObjectPointerRecords \cup SoftKeyMaskRecords
        \cup ContainerRecords \cup UnknownTypeRecords

\* Objects a caller inserts into a pool directly.
SampleObjects ==
    {[id |-> 5, kind |-> "NumberVariable", value |-> 7],
     [id |-> 16, kind |-> "ObjectPointer", value |-> 5],
     [id |-> 65535, kind |-> "ObjectPointer", value |-> 65535],
     [id |-> 153, kind |-> "SoftKeyMask", background_colour |-> 0,
      objects |-> <<200, 5, 201>>, macro_refs |-> <<>>]}

(***************************************************************************)
(* The conversions, called one at a time.                                  *)
(***************************************************************************)
NoCall == [op |-> "none", arg |-> 0, ret |-> Ok(0)]

NoOutput == [done |-> FALSE, bytes |-> <<>>]

Idle ==
    /\ buf = <<>> /\ fed = 0 /\ pc = "input" /\ decoded = NotDecoded
    /\ pool = EmptyPool /\ poolErr = "none" /\ dangling = {} /\ out = NoOutput

PipelineUnchanged == UNCHANGED <<buf, pc, decoded, pool, poolErr, dangling, out, fed>>

TryFromCall ==
    /\ call.op = "none"
    /\ \E v \in Byte :
        call' = [op |-> "ObjectType::try_from", arg |-> v, ret |-> ObjectTypeTryFrom(v)]
    /\ PipelineUnchanged

ToU8Call ==
    /\ call.op = "none"
    /\ \E t \in ObjectType :
        call' = [op |-> "u8::from", arg |-> t, ret |-> Ok(ObjectTypeToU8(t))]
    /\ PipelineUnchanged

FromSliceCall ==
    /\ call.op = "none"
    /\ \E s \in SampleSlices :
        call' = [op |-> "ObjectId::from_slice", arg |-> s, ret |-> Ok(ObjectIdFromSlice(s))]
    /\ PipelineUnchanged

MacroLiteralCall ==
    /\ call.op = "none"
    /\ \E n \in SampleLengths :
        call' = [op |-> "Macro", arg |-> n, ret |-> MacroLiteral(5, [i \in 1..n |-> 0])]
    /\ PipelineUnchanged

WorkingSetLiteralCall ==
    /\ call.op = "none"
    /\ \E n \in SampleLengths :
        call' = [op |-> "WorkingSet", arg |-> n,
                 ret |-> WorkingSetLiteral(5,
                            [i \in 1..n |-> [id |-> 16, offset |-> [x |-> 0, y |-> 0]]])]
    /\ PipelineUnchanged

ObjectIdFromU16Call ==
    /\ call.op = "none"
    /\ \E v \in U16 :
        call' = [op |-> "ObjectId::from_u16", arg |-> v, ret |-> Ok(ObjectIdFromU16(v))]
    /\ PipelineUnchanged

ObjectIdDefaultCall ==
    /\ call.op = "none"
    /\ call' = [op |-> "ObjectId::default", arg |-> 0, ret |-> Ok(ObjectIdDefault)]
    /\ PipelineUnchanged

ObjectIdToBytesCall ==
    /\ call.op = "none"
    /\ \E v \in SampleU16 :
        call' = [op |-> "ObjectId::to_bytes", arg |-> v,
                 ret |-> Ok(ObjectIdToLeBytes(ObjectIdFromU16(v)))]
    /\ PipelineUnchanged

ObjectIdFromBytesCall ==
    /\ call.op = "none"
    /\ \E lo \in EdgeBytes, hi \in EdgeBytes :
        call' = [op |-> "ObjectId::from_bytes", arg |-> <<lo, hi>>,
                 ret |-> Ok(ObjectIdFromLeBytes(lo, hi))]
    /\ PipelineUnchanged

ObjectIdToU16Call ==
    /\ call.op = "none"
    /\ \E v \in SampleU16 :
        call' = [op |-> "u16::from", arg |-> v,
                 ret |-> Ok(ObjectIdToU16(ObjectIdFromU16(v)))]
    /\ PipelineUnchanged

ObjectIdCompareCall ==
    /\ call.op = "none"
    /\ \E a \in SampleU16, b \in SampleU16 :
        call' = [op |-> "ObjectId::compare", arg |-> <<a, b>>,
                 ret |-> Ok([eq |-> ObjectIdEq(ObjectIdFromU16(a), ObjectIdFromU16(b)),
                             lt |-> ObjectIdLt(ObjectIdFromU16(a), ObjectIdFromU16(b))])]
    /\ PipelineUnchanged

ObjectAccessorsCall ==
    /\ call.op = "none"
    /\ \/ \E k \in ObjectVariants, i \in AccessorIds :
            LET o == [kind |-> k, id |-> i]
            IN  call' = [op |-> "Object::accessors", arg |-> [kind |-> k, id |-> i],
                         ret |-> Ok([id |-> ObjectIdOf(o), object_type |-> ObjectTypeOf(o)])]
       \/ \E o \in SampleObjects :
            call' = [op |-> "Object::accessors", arg |-> [kind |-> o.kind, id |-> o.id],
                     ret |-> Ok([id |-> ObjectIdOf(o), object_type |-> ObjectTypeOf(o)])]
    /\ PipelineUnchanged

ColourFromU32Call ==
    /\ call.op = "none"
    /\ \E b0 \in ColourBytes, b1 \in ColourBytes, b2 \in ColourBytes, b3 \in ColourBytes :
        LET v == U32Halves(b0 + 256 * b1, b2 + 256 * b3)
        IN  call' = [op |-> "Colour::from", arg |-> v, ret |-> Ok(ColourFromU32(v))]
    /\ PipelineUnchanged

PaletteIndexCall ==
    /\ call.op = "none"
    /\ \E k \in Byte :
        call' = [op |-> "Colour::COLOUR_PALETTE", arg |-> k, ret |-> PaletteEntry(k)]
    /\ PipelineUnchanged

IndustryGroupFromU8Call ==
    /\ call.op = "none"
    /\ \E v \in Byte :
        call' = [op |-> "IndustryGroup::from", arg |-> v, ret |-> IndustryGroupFromU8(v)]
    /\ PipelineUnchanged

IndustryGroupToU8Call ==
    /\ call.op = "none"
    /\ \E g \in IndustryGroup :
        call' = [op |-> "u8::from(IndustryGroup)", arg |-> g,
                 ret |-> Ok(IndustryGroupToU8(g))]
    /\ PipelineUnchanged

DeviceClassFromCodeCall ==
    /\ call.op = "none"
    /\ \E v \in Byte, ig \in IndustryGroup :
        call' = [op |-> "DeviceClass::from", arg |-> [code |-> v, ig |-> ig],
                 ret |-> Ok(DeviceClassFromCode(v, ig))]
    /\ PipelineUnchanged

DeviceClassToU8Call ==
    /\ call.op = "none"
    /\ \E dc \in DeviceClassValues :
        call' = [op |-> "u8::from(DeviceClass)", arg |-> dc, ret |-> Ok(DeviceClassToU8(dc))]
    /\ PipelineUnchanged

IndustryGroupFromDeviceClassCall ==
    /\ call.op = "none"
    /\ \E dc \in DeviceClassValues :
        call' = [op |-> "IndustryGroup::from(DeviceClass)", arg |-> dc,
                 ret |-> Ok(IndustryGroupFromDeviceClass(dc))]
    /\ PipelineUnchanged

PointAddCall ==
    /\ call.op = "none"
    /\ \E px \in SamplePositions, py \in SamplePositions,
          dx \in SampleOffsets, dy \in SampleOffsets, overflow_checks \in BOOLEAN :
        call' = [op |-> "Point::add",
                 arg |-> [self |-> [x |-> px, y |-> py], rhs |-> [x |-> dx, y |-> dy],
                          overflow_checks |-> overflow_checks],
                 ret |-> PointAdd([x |-> px, y |-> py], [x |-> dx, y |-> dy],
                                  overflow_checks)]
    /\ PipelineUnchanged

ColourConstantCall ==
    /\ call.op = "none"
    /\ \E name \in ColourConstantNames :
        call' = [op |-> "Colour::constant", arg |-> name, ret |-> ColourConstant(name)]
    /\ PipelineUnchanged

ColourDefaultCall ==
    /\ call.op = "none"
    /\ call' = [op |-> "Colour::default", arg |-> 0, ret |-> ColourDefault]
    /\ PipelineUnchanged

\* The call returns; the next conversion starts from a fresh call.
Return ==
    /\ call.op # "none"
    /\ call' = NoCall
    /\ PipelineUnchanged

ConvNext ==
    \/ TryFromCall
    \/ ToU8Call
    \/ FromSliceCall
    \/ MacroLiteralCall
    \/ WorkingSetLiteralCall
    \/ ObjectIdFromU16Call
    \/ ObjectIdDefaultCall
    \/ ObjectIdToBytesCall
    \/ ObjectIdFromBytesCall
    \/ ObjectIdToU16Call
    \/ ObjectIdCompareCall
    \/ ObjectAccessorsCall
    \/ ColourFromU32Call
    \/ PaletteIndexCall
    \/ IndustryGroupFromU8Call
    \/ IndustryGroupToU8Call
    \/ DeviceClassFromCodeCall
    \/ DeviceClassToU8Call
    \/ IndustryGroupFromDeviceClassCall
    \/ PointAddCall
    \/ ColourConstantCall
    \/ ColourDefaultCall
    \/ Return

ConvInit == call = NoCall /\ Idle

SpecConv == ConvInit /\ [][ConvNext]_vars

(***************************************************************************)
(* The pipeline: the caller fills the buffer, the reader decodes it, the   *)
(* objects are assembled into a pool, the pool is validated, the writer    *)
(* encodes the objects.                                                    *)
(***************************************************************************)
Feed ==
    /\ pc = "input" /\ fed < MaxObjects
    /\ \E r \in SampleRecords : buf' = buf \o r
    /\ fed' = fed + 1
    /\ UNCHANGED <<call, pc, decoded, pool, poolErr, dangling, out>>

\* A transfer that stops short: the buffer is a proper prefix.
Truncate ==
    /\ pc = "input" /\ fed > 0
    /\ \E k \in 1..MaxCut :
        /\ k < Len(buf)
        /\ buf' = SubSeq(buf, 1, Len(buf) - k)
    /\ pc' = "truncated"
    /\ UNCHANGED <<call, decoded, pool, poolErr, dangling, out, fed>>

DecodePool ==
    /\ pc \in {"input", "truncated"}
    /\ decoded' = ReadPool(buf)
    /\ pc' = "decoded"
    /\ UNCHANGED <<call, buf, pool, poolErr, dangling, out, fed>>

EncodePool ==
    /\ pc = "decoded" /\ decoded.ok /\ ~out.done
    /\ out' = [done |-> TRUE, bytes |-> WriteObjects(decoded.objs)]
    /\ UNCHANGED <<call, buf, pc, decoded, pool, poolErr, dangling, fed>>

BuildPool ==
    /\ pc = "decoded" /\ decoded.ok
    /\ LET r == BuildFromSequence(decoded.objs)
       IN  IF r.ok
           THEN pool' = r.val /\ poolErr' = "none" /\ pc' = "pooled"
           ELSE pool' = EmptyPool /\ poolErr' = r.err /\ pc' = "rejected"
    /\ UNCHANGED <<call, buf, decoded, dangling, out, fed>>

InsertObject ==
    /\ pc = "pooled" /\ Len(pool.objects) < MaxPool
    /\ \E o \in SampleObjects :
        LET r == Insert(pool, o)
        IN  IF r.ok
            THEN pool' = r.val /\ poolErr' = "none"
            ELSE pool' = pool /\ poolErr' = r.err
    /\ UNCHANGED <<call, buf, pc, decoded, dangling, out, fed>>

Validate ==
    /\ pc = "pooled"
    /\ LET r == ValidatePass(pool)
       IN  dangling' = r.dangling /\ pool' = r.pool
    /\ pc' = "validated"
    /\ UNCHANGED <<call, buf, decoded, poolErr, out, fed>>

\* validate_references() called again on the validated pool; the first
\* result stays in dangling.
Revalidate ==
    /\ pc = "validated"
    /\ LET r == ValidatePass(pool)
       IN  /\ call' = [op |-> "ObjectPool::validate_references", arg |-> pool,
                       ret |-> Ok(r.dangling)]
           /\ pool' = r.pool
    /\ UNCHANGED <<buf, pc, decoded, poolErr, dangling, out, fed>>

GetObject ==
    /\ pc = "pooled"
    /\ \E id \in QueryIds :
        call' = [op |-> "ObjectPool::get", arg |-> [pool |-> pool, id |-> id],
                 ret |-> Get(pool, id)]
    /\ PipelineUnchanged

IterObjects ==
    /\ pc = "pooled"
    /\ LET r == Iter(pool)
       IN  /\ call' = [op |-> "ObjectPool::iter", arg |-> pool, ret |-> Ok(r.items)]
           /\ pool' = r.pool
    /\ UNCHANGED <<buf, pc, decoded, poolErr, dangling, out, fed>>

Next ==
    \/ Feed
    \/ Truncate
    \/ DecodePool
    \/ EncodePool
    \/ BuildPool
    \/ InsertObject
    \/ Validate
    \/ Revalidate
    \/ GetObject
    \/ IterObjects

Init == call = NoCall /\ Idle

Spec == Init /\ [][Next]_vars

(***************************************************************************)
(* Properties.                                                             *)
(***************************************************************************)
Range(s) == {s[i] : i \in 1..Len(s)}

\* The offsets at which the reader starts an object of buffer b.
RECURSIVE ObjectOffsets(_, _)
ObjectOffsets(b, pos) ==
    IF pos >= Len(b) THEN {}
    ELSE {pos} \cup (IF ReadObject(b, pos).ok
                     THEN ObjectOffsets(b, ReadObject(b, pos).val.pos)
                     ELSE {})

DefinedIds(p) == {p.objects[i].id : i \in 1..Len(p.objects)} \ {65535}

ReferencedIds(p) ==
    UNION {Range(References(Fields(o.kind), o)) : o \in Range(p.objects)}

HasDuplicateId(objs) ==
    \E i, j \in 1..Len(objs) : i < j /\ objs[i].id # 65535 /\ objs[i].id = objs[j].id

\* C1: ObjectType::try_from(v) succeeds for exactly the byte values 0..=48 and
\* returns Err(UnknownObjectType) for every byte value 49..=255.
C1_TryFromTotality ==
    call.op = "ObjectType::try_from" =>
        /\ call.arg \in 0..48 => call.ret.ok /\ call.ret.val \in ObjectType
        /\ call.arg \in 49..255 => ~call.ret.ok /\ call.ret.err = "UnknownObjectType"
        /\ Cardinality({v \in Byte : ObjectTypeTryFrom(v).ok}) = 49

C1_Witness ==
    call.op = "ObjectType::try_from" /\ call.arg = 49 /\ ~call.ret.ok

\* C2: u8::from(ObjectType) is total and the exact inverse of try_from: the tag
\* of the kind try_from(v) gives is v, and try_from of a kind's tag gives back
\* the kind.
C2_RegistryBijection ==
    /\ call.op = "ObjectType::try_from" /\ call.ret.ok =>
            ObjectTypeToU8(call.ret.val) = call.arg
    /\ call.op = "u8::from" =>
            /\ call.ret.ok /\ call.ret.val \in 0..48
            /\ ObjectTypeTryFrom(call.ret.val) = Ok(call.arg)

C2_Witness ==
    call.op = "u8::from" /\ call.arg = "ScalesGraphic" /\ call.ret.val = 48

C4_RoundTrip == out.done => out.bytes = buf

\* C5: converting a proper prefix of the two ObjectId bytes (a slice of fewer
\* than two bytes) yields the DataEmpty error and no value.
C5_TruncatedSliceIsDataEmpty ==
    call.op = "ObjectId::from_slice" /\ Len(call.arg) < 2 =>
        ~call.ret.ok /\ call.ret.err = "DataEmpty"

\* C6: no two objects of a pool share a non-NULL id; assembling a sequence with
\* a colliding non-NULL id fails with DuplicateId, and so does an insert whose
\* non-NULL id is already defined, which leaves the pool as it was.
C6_UniqueIds ==
    [][/\ ~HasDuplicateId(pool'.objects)
       /\ pc' = "rejected" =>
            poolErr' = "DuplicateId" /\ HasDuplicateId(decoded.objs)
       /\ pc = "decoded" /\ pc' = "pooled" =>
            ~HasDuplicateId(decoded.objs) /\ pool'.objects = decoded.objs
       /\ InsertObject =>
            \/ /\ poolErr' = "DuplicateId" /\ pool' = pool
               /\ \E o \in SampleObjects : o.id # 65535 /\ o.id \in DefinedIds(pool)
            \/ /\ poolErr' = "none"
               /\ \E o \in SampleObjects :
                    /\ o.id = 65535 \/ o.id \notin DefinedIds(pool)
                    /\ pool'.objects = Append(pool.objects, o)]_vars

C6_Witness ==
    /\ pc = "rejected" /\ poolErr = "DuplicateId"
    /\ Len(decoded.objs) = 2
    /\ decoded.objs[1].id = 5 /\ decoded.objs[2].id = 5

\* C7: validate_references() on an assembled pool returns exactly the non-NULL
\* ids that some object refers to and no object of the pool defines, all of
\* them at once; NULL is never among them, a reference to an object defined
\* later in the stream is not among them, and the decode that produced the
\* pool succeeded.
C7_DanglingSet ==
    pc = "validated" =>
        /\ dangling = {r \in ReferencedIds(pool) : r # 65535 /\ r \notin DefinedIds(pool)}
        /\ 65535 \notin dangling
        /\ decoded.ok

C7_Witness ==
    /\ pc = "validated" /\ Cardinality(dangling) >= 2
    /\ 65535 \in ReferencedIds(pool)
    /\ \E i, j \in 1..Len(pool.objects) :
        /\ i < j
        /\ pool.objects[j].id \in Range(References(Fields(pool.objects[i].kind),
                                                  pool.objects[i]))

\* C8: a type byte outside 0..=48 at the start of an object aborts the decode
\* with UnknownObjectType: no object is returned and no pool is assembled.
C8_UnknownTypeAborts ==
    decoded.done /\ (\E s \in ObjectOffsets(buf, 0) :
                        s + 3 <= Len(buf) /\ buf[s + 3] \notin 0..48) =>
        /\ ~decoded.ok /\ decoded.err = "UnknownObjectType"
        /\ decoded.objs = <<>>
        /\ pool = EmptyPool /\ pc = "decoded" /\ ~out.done

C8_Witness ==
    /\ decoded.done /\ ~decoded.ok /\ decoded.err = "UnknownObjectType"
    /\ decoded.index = 1 /\ buf[decoded.offset + 3] = 49

\* C9: if any object of the buffer fails to decode, the whole decode fails with
\* that object's error and returns no object, and no pool is assembled from it;
\* otherwise the decode succeeds.
C9_AllOrNothing ==
    decoded.done =>
        LET failing == {s \in ObjectOffsets(buf, 0) : ~ReadObject(buf, s).ok}
        IN  /\ failing = {} => decoded.ok
            /\ failing # {} =>
                /\ ~decoded.ok /\ decoded.err \in ParseError
                /\ \A s \in failing : decoded.err = ReadObject(buf, s).err
                /\ decoded.objs = <<>>
                /\ pool = EmptyPool /\ pc = "decoded" /\ ~out.done

C9_Witness ==
    /\ decoded.done /\ ~decoded.ok /\ decoded.err = "DataEmpty"
    /\ decoded.index = 1 /\ decoded.objs = <<>>

\* C10: an object whose sequence is longer than a one-byte count can represent
\* (more than 255 elements) cannot be constructed: the construction is rejected.
C10_OversizeRejected ==
    call.op \in {"Macro", "WorkingSet"} /\ call.arg > 255 => ~call.ret.ok


\* C11 as stated: the record with id 0x0010, type byte 21 and value bytes
\* 00 00 00 2A decodes to NumberVariable{id: 0x0010, value: 42}, and the record,
\* which re-encoding reproduces, is 9 bytes long.
C11_ScenarioA_AsStated ==
    decoded.done /\ buf = <<16, 0, 21, 0, 0, 0, 42>> =>
        /\ decoded.ok
        /\ decoded.objs = <<[id |-> 16, kind |-> "NumberVariable", value |-> 42]>>
        /\ Len(buf) = 9
        /\ out.done => out.bytes = buf

\* C11, amended: the record 10 00 15 2A 00 00 00 (value bytes little-endian)
\* decodes to NumberVariable{id: 0x0010, value: 42}; the value bytes 00 00 00 2A
\* decode to 0x2A000000; re-encoding reproduces either record, which is 7 bytes
\* long.
C11_ScenarioA ==
    /\ decoded.done /\ buf = <<16, 0, 21, 42, 0, 0, 0>> =>
        /\ decoded.ok
        /\ decoded.objs = <<[id |-> 16, kind |-> "NumberVariable", value |-> 42]>>
        /\ out.done => out.bytes = buf /\ Len(out.bytes) = 7
    /\ decoded.done /\ buf = <<16, 0, 21, 0, 0, 0, 42>> =>
        /\ decoded.ok
        /\ decoded.objs = <<[id |-> 16, kind |-> "NumberVariable", value |-> 704643072]>>
        /\ out.done => out.bytes = buf /\ Len(out.bytes) = 7

C11_Witness ==
    out.done /\ buf = <<16, 0, 21, 42, 0, 0, 0>> /\ decoded.objs[1].value = 42


\* C12: ObjectId::from(0xFFFF) is ObjectId::NULL, ObjectId::default() is
\* ObjectId::NULL, and no other 16-bit value converts to NULL.
C12_NullSentinel ==
    /\ call.op = "ObjectId::from_u16" => (call.ret.val = NULL <=> call.arg = 65535)
    /\ call.op = "ObjectId::default" =>
            call.ret.val = NULL /\ call.ret.val = ObjectIdFromU16(65535)

C12_Witness == call.op = "ObjectId::default" /\ call.ret.val = 65535

\* C13: the two-byte form of ObjectId(v) is [v mod 256, v div 256], converting
\* the two bytes back gives ObjectId(v), and u16::from(ObjectId::from(v)) is v.
C13_LittleEndianLossless ==
    /\ call.op = "ObjectId::to_bytes" =>
            /\ call.ret.val = <<call.arg % 256, call.arg \div 256>>
            /\ ObjectIdFromLeBytes(call.ret.val[1], call.ret.val[2]) = call.arg
    /\ call.op = "ObjectId::from_bytes" =>
            /\ call.ret.val = call.arg[1] + 256 * call.arg[2]
            /\ ObjectIdToLeBytes(call.ret.val) = call.arg
    /\ call.op = "u16::from" => call.ret.val = call.arg

C13_Witness ==
    call.op = "ObjectId::to_bytes" /\ call.arg = 65024 + 1 /\ call.ret.val = <<1, 254>>

\* C14: two ObjectIds are equal exactly when their raw values are equal, and
\* one is less than the other exactly when its raw value is smaller.
C14_EqualityAndOrdering ==
    call.op = "ObjectId::compare" =>
        /\ call.ret.val.eq.ok
        /\ call.ret.val.eq.val <=> call.arg[1] = call.arg[2]
        /\ call.ret.val.lt.ok
        /\ call.ret.val.lt.val <=> call.arg[1] < call.arg[2]


\* C15: get(id) returns the defined object whose id is id when the pool has
\* one, and fails with NotFound for every id with no defined object.
C15_GetFindsDefined ==
    call.op = "ObjectPool::get" =>
        LET p == call.arg.pool
            id == call.arg.id
            defined == {i \in 1..Len(p.objects) : id # NULL /\ p.objects[i].id = id}
        IN  IF defined # {}
            THEN /\ call.ret.ok
                 /\ \E i \in defined : call.ret.val = p.objects[i]
            ELSE call.ret = Err("NotFound")

C15_Witness ==
    /\ call.op = "ObjectPool::get" /\ call.ret.ok
    /\ Len(call.arg.pool.objects) >= 2
    /\ call.ret.val = call.arg.pool.objects[2]

C18_AccessorsTotal ==
    /\ Cardinality(ObjectVariants) = 49
    /\ ObjectVariants = ObjectType
    /\ call.op = "Object::accessors" =>
            /\ call.ret.ok
            /\ call.ret.val.object_type = call.arg.kind
            /\ call.ret.val.object_type \in ObjectType
            /\ call.ret.val.id = call.arg.id

C18_Witness ==
    /\ call.op = "Object::accessors" /\ call.arg.kind = "Button" /\ call.arg.id = 4660
    /\ call.ret.val = [id |-> 4660, object_type |-> "Button"]

\* C19: Colour::from(v) takes the four little-endian bytes of the 32-bit v as
\* r, g, b, a in that order: r is the least significant byte, a the most.
C19_ColourFromU32 ==
    call.op = "Colour::from" =>
        /\ call.ret.val.r = call.arg.lo % 256
        /\ call.ret.val.g = call.arg.lo \div 256
        /\ call.ret.val.b = call.arg.hi % 256
        /\ call.ret.val.a = call.arg.hi \div 256

C19_Witness ==
    /\ call.op = "Colour::from" /\ call.arg = U32Halves(1 + 256 * 128, 0 + 256 * 255)
    /\ call.ret.val = [r |-> 1, g |-> 128, b |-> 0, a |-> 255]

\* C20: the default palette has exactly 256 entries, indices 0 to 255, and
\* the entries at indices 232 to 255 are all opaque black.
C20_PaletteTailOpaqueBlack ==
    /\ Len(COLOUR_PALETTE) = 256
    /\ call.op = "Colour::COLOUR_PALETTE" =>
            /\ call.ret.ok
            /\ call.arg \in 232..255 => call.ret.val = [r |-> 0, g |-> 0, b |-> 0, a |-> 255]

C20_Witness ==
    /\ call.op = "Colour::COLOUR_PALETTE" /\ call.arg = 255
    /\ call.ret.ok /\ call.ret.val.a = 255 /\ call.ret.val.r = 0


\* C24: IndustryGroup round-trips through u8: converting a group to u8 and
\* back gives the group, and converting a value 0..7 to a group and back
\* gives the value.
C24_IndustryGroupRoundTrip ==
    /\ call.op = "u8::from(IndustryGroup)" =>
            /\ call.ret.val \in 0..7
            /\ IndustryGroupFromU8(call.ret.val) = Ok(call.arg)
    /\ (call.op = "IndustryGroup::from" /\ call.arg \in 0..7) =>
            /\ call.ret.ok
            /\ call.ret.val \in IndustryGroup
            /\ IndustryGroupToU8(call.ret.val) = call.arg

C24_Witness ==
    /\ call.op = "u8::from(IndustryGroup)"
    /\ call.arg = "AgriculturalAndForestryEquipment" /\ call.ret.val = 2

\* C26: IndustryGroup::from(v) returns a group only for v in 0..7; for every
\* byte 8..255 it reaches the unreachable! panic and returns neither a group
\* nor an error value.
C26_FromU8PanicsAbove7 ==
    call.op = "IndustryGroup::from" =>
        /\ call.arg \in 0..7 => call.ret.ok /\ call.ret.val \in IndustryGroup
        /\ call.arg \in 8..255 =>
                ~call.ret.ok /\ call.ret = Unreachable /\ call.ret.err \notin ParseError

C26_Witness ==
    call.op = "IndustryGroup::from" /\ call.arg = 8 /\ call.ret = Unreachable


\* C21: DeviceClass round-trips through its numeric code and industry group:
\* for every DeviceClass dc, NonSpecificSystem(ig) and Tractor(ig) for each of
\* the 8 groups included, DeviceClass::from((u8::from(dc),
\* IndustryGroup::from(dc))) is dc.
C21_DeviceClassRoundTrip ==
    call.op = "u8::from(DeviceClass)" =>
        DeviceClassFromCode(call.ret.val, IndustryGroupFromDeviceClass(call.arg)) = call.arg

\* C22: for every code v in 0..255 and every IndustryGroup ig, if
\* DeviceClass::from((v, ig)) is not NotAvailable then its u8 code is v.
C22_DecodedCodeIsCode ==
    (call.op = "DeviceClass::from" /\ call.ret.val # Unit("NotAvailable")) =>
        DeviceClassToU8(call.ret.val) = call.arg.code

C22_Witness ==
    /\ call.op = "DeviceClass::from"
    /\ call.arg = [code |-> 5, ig |-> "AgriculturalAndForestryEquipment"]
    /\ call.ret.val = Unit("Fertilizers")

\* C23: the IndustryGroup derived from a decoded DeviceClass is the group it
\* was decoded with, unless the decoded class is NotAvailable; the group
\* derived from NotAvailable is Global.
C23_DecodedGroupIsGroup ==
    /\ (call.op = "DeviceClass::from" /\ call.ret.val # Unit("NotAvailable")) =>
            IndustryGroupFromDeviceClass(call.ret.val) = call.arg.ig
    /\ (call.op = "IndustryGroup::from(DeviceClass)" /\ call.arg = Unit("NotAvailable")) =>
            call.ret.val = "Global"

C23_Witness ==
    /\ call.op = "DeviceClass::from"
    /\ call.arg = [code |-> 17, ig |-> "ConstructionEquipment"]
    /\ call.ret.val = Unit("Crusher")

\* C27: DeviceClass::from((v, ig)) returns a DeviceClass for every byte v and
\* every one of the 8 groups; it returns NotAvailable exactly for the pairs
\* with no listed device class, in particular for every v # 0 with
\* ReservedForSAE1 or ReservedForSAE2 and for v = 127 with any group.
C27_FromCodeTotal ==
    call.op = "DeviceClass::from" =>
        LET v == call.arg.code
            ig == call.arg.ig
            listed ==
                \/ v = 0
                \/ ig = "OnHighwayEquipment" /\ v \in 1..2
                \/ ig = "AgriculturalAndForestryEquipment" /\ v \in (1..17) \cup (19..27)
                \/ ig = "ConstructionEquipment" /\ v \in 1..17
                \/ ig = "MarineEquipment" /\ v \in {10, 20, 25, 30, 40, 60, 70, 80, 90, 100}
        IN  /\ call.ret.ok
            /\ call.ret.val \in DeviceClassValues
            /\ call.ret.val = Unit("NotAvailable") <=> ~listed
            /\ (ig \in {"ReservedForSAE1", "ReservedForSAE2"} /\ v # 0) =>
                    call.ret.val = Unit("NotAvailable")
            /\ v = 127 => call.ret.val = Unit("NotAvailable")

C27_Witness ==
    /\ call.op = "DeviceClass::from"
    /\ call.arg = [code |-> 127, ig |-> "ReservedForSAE2"]
    /\ call.ret = Ok(Unit("NotAvailable"))

\* C28: every DeviceClass code fits the 7-bit device-class field: u8::from(dc)
\* is at most 127 for every dc, and 127 is produced only by NotAvailable.
C28_CodeFitsSevenBits ==
    call.op = "u8::from(DeviceClass)" =>
        /\ call.ret.val \in 0..127
        /\ call.ret.val = 127 => call.arg = Unit("NotAvailable")

C28_Witness ==
    /\ call.op = "u8::from(DeviceClass)"
    /\ call.arg = Unit("NotAvailable") /\ call.ret.val = 127


\* C25: Point<u16> + Point<i16> returns for each component exactly the sum
\* p + d whenever that sum lies in 0..65535, and the intermediate signed
\* 16-bit addition (p read as i16, plus d) stays inside the i16 range in
\* those cases.
C25_PointAddExact ==
    call.op = "Point::add" =>
        LET p == call.arg.self
            d == call.arg.rhs
            inRangeX == p.x + d.x \in 0..65535
            inRangeY == p.y + d.y \in 0..65535
        IN  /\ inRangeX => AsI16(p.x) + d.x \in -32768..32767
            /\ inRangeY => AsI16(p.y) + d.y \in -32768..32767
            /\ (inRangeX /\ inRangeY) => call.ret.ok
            /\ (inRangeX /\ call.ret.ok) => call.ret.val.x = p.x + d.x
            /\ (inRangeY /\ call.ret.ok) => call.ret.val.y = p.y + d.y


\* C29: palette indices 16..231 form the 6x6x6 colour cube: for ri, gi, bi in
\* 0..5 the entry at 16 + 36*ri + 6*gi + bi has r = 0x33*ri, g = 0x33*gi,
\* b = 0x33*bi.
C29_ColourCube ==
    (call.op = "Colour::COLOUR_PALETTE" /\ call.arg \in 16..231) =>
        \E ri \in 0..5, gi \in 0..5, bi \in 0..5 :
            /\ call.arg = 16 + 36 * ri + 6 * gi + bi
            /\ call.ret.ok
            /\ call.ret.val.r = 51 * ri
            /\ call.ret.val.g = 51 * gi
            /\ call.ret.val.b = 51 * bi

C29_Witness ==
    /\ call.op = "Colour::COLOUR_PALETTE" /\ call.arg = 16 + 36 * 5 + 6 * 2 + 1
    /\ call.ret.val = [r |-> 255, g |-> 102, b |-> 51, a |-> 255]

\* The names BLACK to NAVY in the order claim C30 gives them palette entries
\* 0 to 15.
NamedColoursInOrder ==
    <<"BLACK", "WHITE", "GREEN", "TEAL", "MAROON", "PURPLE", "OLIVE", "SILVER",
      "GREY", "BLUE", "LIME", "CYAN", "RED", "MAGENTA", "YELLOW", "NAVY">>

\* C30: every one of the 256 palette entries is fully opaque, the named
\* colour constants BLACK to NAVY are palette entries 0 to 15 in order, and
\* Colour::default() is entry 8, GREY.
C30_OpaqueNamedDefault ==
    /\ call.op = "Colour::COLOUR_PALETTE" => call.ret.ok /\ call.ret.val.a = 255
    /\ call.op = "Colour::constant" =>
            /\ call.ret.ok
            /\ \E k \in 0..15 :
                /\ NamedColoursInOrder[k + 1] = call.arg
                /\ call.ret.val = COLOUR_PALETTE[k + 1]
    /\ call.op = "Colour::default" =>
            /\ call.ret.ok
            /\ call.ret.val = COLOUR_PALETTE[8 + 1]
            /\ call.ret = ColourConstant("GREY")

C30_Witness ==
    /\ call.op = "Colour::default"
    /\ call.ret.ok /\ call.ret.val = COLOUR_PALETTE[9] /\ call.ret.val.a = 255

====
